---- MODULE Spec2Model ----
(***************************************************************************)
(* NovaVista FreeGaze: the dwell detector (src/utils/dwellTimer.js), the   *)
(* calibration manager (src/core/calibration.js), feature extraction       *)
(* (src/core/featureExtraction.js) and the gaze smoother                   *)
(* (src/utils/smoothing.js).                                               *)
(*                                                                         *)
(* Times are integer milliseconds read from Date.now(), the wall clock,    *)
(* which usually advances and may be set back.  Coordinates are integers;  *)
(* Math.sqrt(d2) < t is decided as d2 < t*t, which is the same for t >= 0. *)
(* A ratio a/b is kept as the pair [num |-> a, den |-> b].                 *)
(***************************************************************************)
EXTENDS Integers, Sequences, FiniteSets

----------------------------------------------------------------------------
(* Bounds of the model *)

MaxCoord == 1
MaxTicks == 3

(* Date.now() at construction; far above every dwell time, as the epoch is *)
StartTime == 4

MaxTime == StartTime + MaxTicks

(* JavaScript values that are not finite numbers: null, undefined (NaN as *)
(* a number) and Infinity, kept outside the range of every number the     *)
(* model computes; -Infinity is written -Infinity                         *)
Null == -1999999998
Undef == -1999999999
Infinity == 2000000000
NoPosition == [null |-> TRUE]
NoProgress == [num |-> Null, den |-> 1]

Coords == 0 .. MaxCoord
Positions == [x : Coords, y : 0 .. 1]
Malformed == { [x |-> Undef, y |-> Undef], [x |-> 0, y |-> Undef] }
Arguments == Positions \cup Malformed \cup {NoPosition}
DwellTimes == {2, 3}
Thresholds == {1, 2}

----------------------------------------------------------------------------
VARIABLES
  dwellTime, threshold, enabled,      \* DwellDetector options
  dwellStart, lastPosition, isDwelling,
  progressCallback,                   \* TRUE when a progress callback is registered
  now,                                \* Date.now()
  ret,                                \* the last call and what it returned
  epPos, epAt,                        \* history: the update that set the anchor
  epFull                              \* history: progress >= 1 reported, episode still open

dwellVars == <<dwellTime, threshold, enabled, dwellStart, lastPosition, isDwelling,
               progressCallback, now, ret, epPos, epAt, epFull>>

VARIABLES
  points, isCalibrating, currentPointIndex, currentSamples,
  calRet                              \* the last CalibrationManager call and its result

calVars == <<points, isCalibrating, currentPointIndex, currentSamples, calRet>>

VARIABLES
  featRet                             \* the last feature-extraction call and its result

featVars == <<featRet>>

VARIABLES
  xFilter, yFilter,                   \* the two OneEuroFilter objects of gazeSmoother
  smoothCalls,                        \* how many times smooth has been called
  smoothRet                           \* the last GazeSmoother call and its result

smoothVars == <<xFilter, yFilter, smoothCalls, smoothRet>>

VARIABLES
  storage,                            \* localStorage: the calibration item or null
  saved                               \* history: the list the item was written from

storeVars == <<storage, saved>>

VARIABLES
  model,                              \* TRUE when this.model of gazePredictionModel is an object
  isTrained,
  fitted,                             \* history: this.model has been through a fit or was loaded
  fits,                               \* the calls of model.fit that have not settled yet
  predRet                             \* the last GazePredictionModel call and its result

predVars == <<model, isTrained, fitted, fits, predRet>>

VARIABLES
  isInitialized, error, faceDetected, \* the state of the App component
  mode, appCalibrating,               \* mode, and isCalibrating of App (the overlay is shown)
  eyeFeatures, modelTrained,
  currentPoint, isCollecting,         \* the state of the Calibration component
  collectInterval,                    \* "running" while the sampling interval of the overlay is set
  saves,                              \* calls of saveModel that have not settled yet
  appRet                              \* the last step of the application and what it did

appVars == <<isInitialized, error, faceDetected, mode, appCalibrating, eyeFeatures,
             modelTrained, currentPoint, isCollecting, collectInterval, saves, appRet>>

vars == <<dwellVars, calVars, featVars, smoothVars, storeVars, predVars, appVars>>

(* what the calls of one object leave alone *)
besideDwell == <<calVars, featVars, smoothVars, storeVars, predVars, appVars>>
besideCal == <<dwellVars, featVars, smoothVars, storeVars, predVars, appVars>>
besideFeat == <<dwellVars, calVars, smoothVars, storeVars, predVars, appVars>>
besideSmooth == <<dwellVars, calVars, featVars, storeVars, predVars, appVars>>
besideManager == <<dwellVars, featVars, smoothVars, predVars, appVars>>
besidePred == <<dwellVars, calVars, featVars, smoothVars, storeVars, appVars>>

----------------------------------------------------------------------------
(* dwellTimer.js *)

IsNaN(v) == v = Undef

(* distance(p1, p2) squared; Undef (NaN) when a coordinate is missing *)
distance(p1, p2) ==
  IF IsNaN(p1.x) \/ IsNaN(p2.x) \/ IsNaN(p1.y) \/ IsNaN(p2.y)
  THEN Undef
  ELSE (p1.x - p2.x) * (p1.x - p2.x) + (p1.y - p2.y) * (p1.y - p2.y)

(* variant: dist <= this.threshold *)
WithinThresholdInclusive(dist, t) == ~IsNaN(dist) /\ dist <= t * t

(* dist < this.threshold; every comparison with NaN is false *)
WithinThreshold(dist, t) == ~IsNaN(dist) /\ dist < t * t

(* now - this.dwellStart; null converts to 0 *)
Elapsed(t, start) == t - (IF start = Null THEN 0 ELSE start)

(* variant: Math.min(elapsed, 1.0), the division left out *)
ProgressUnscaled(elapsed, dt) ==
  IF elapsed >= 1 THEN [num |-> 1, den |-> 1] ELSE [num |-> elapsed, den |-> 1]

(* Math.min(elapsed / this.dwellTime, 1.0), dwellTime > 0 *)
Progress(elapsed, dt) ==
  IF elapsed >= dt THEN [num |-> 1, den |-> 1] ELSE [num |-> elapsed, den |-> dt]

(* elapsed >= this.dwellTime *)
DwellReached(elapsed, dt) == elapsed >= dt

(* variant: the click reported at the latest sample *)
ClickPositionLatest(last, position) == position

(* position of the click event: { ...this.lastPosition } *)
ClickPosition(last, position) == last

(* !position *)
Falsy(position) == position = NoPosition

Event(op, arg, type, pos, progress, elapsed, cb) ==
  [op |-> op, arg |-> arg, at |-> now, prev |-> lastPosition, type |-> type,
   position |-> pos, progress |-> progress, elapsed |-> elapsed, cb |-> cb]

None(op, arg) == Event(op, arg, "none", NoPosition, NoProgress, Null, NoProgress)

DwellInit ==
  /\ dwellTime \in DwellTimes
  /\ threshold \in Thresholds
  /\ enabled = TRUE
  /\ dwellStart = Null
  /\ lastPosition = NoPosition
  /\ isDwelling = FALSE
  /\ progressCallback = FALSE
  /\ now = StartTime
  /\ ret = None("new", NoPosition)
  /\ epPos = NoPosition
  /\ epAt = Null
  /\ epFull = FALSE

(* what no branch of update assigns *)
UpdateFrame ==
  UNCHANGED <<dwellTime, threshold, enabled, progressCallback, now>>

(* update(position): disabled or no position *)
UpdateIgnored(position) ==
  /\ UpdateFrame
  /\ ~enabled \/ Falsy(position)
  /\ ret' = None("update", position)
  /\ UNCHANGED <<dwellStart, lastPosition, isDwelling, epPos, epAt, epFull>>

(* variant: the first position does not set the dwelling flag *)
UpdateFirstNoFlag(position) ==
  /\ UpdateFrame
  /\ enabled /\ ~Falsy(position)
  /\ lastPosition = NoPosition
  /\ lastPosition' = position
  /\ dwellStart' = now
  /\ UNCHANGED isDwelling
  /\ ret' = Event("update", position, "dwell_start", position, NoProgress, Null, NoProgress)
  /\ epPos' = position /\ epAt' = now /\ epFull' = FALSE

(* update(position): first position *)
UpdateFirst(position) ==
  /\ UpdateFrame
  /\ enabled /\ ~Falsy(position)
  /\ lastPosition = NoPosition
  /\ lastPosition' = position
  /\ dwellStart' = now
  /\ isDwelling' = TRUE
  /\ ret' = Event("update", position, "dwell_start", position, NoProgress, Null, NoProgress)
  /\ epPos' = position /\ epAt' = now /\ epFull' = FALSE

(* the click event as the caller sees it; again records that the flag was
   already down, which it is from the first click of a fixation on *)
ClickEvent(position, elapsed, progress) ==
  [op |-> "update", arg |-> position, at |-> now, prev |-> lastPosition,
   type |-> "click", position |-> ClickPosition(lastPosition, position),
   progress |-> NoProgress, elapsed |-> elapsed,
   cb |-> IF progressCallback THEN progress ELSE NoProgress,
   again |-> ~isDwelling]

(* variant: the click leaves the dwell timer running from the old start *)
UpdateClickKeepsTimer(position) ==
  /\ UpdateFrame
  /\ enabled /\ ~Falsy(position)
  /\ lastPosition # NoPosition
  /\ WithinThreshold(distance(position, lastPosition), threshold)
  /\ LET elapsed == Elapsed(now, dwellStart)
         progress == Progress(elapsed, dwellTime)
     IN /\ DwellReached(elapsed, dwellTime)
        /\ ret' = ClickEvent(position, elapsed, progress)
  /\ isDwelling' = FALSE
  /\ lastPosition' = position
  /\ UNCHANGED dwellStart
  /\ epPos' = position /\ epAt' = now /\ epFull' = FALSE

(* update(position): still dwelling, dwell time reached: click and reset *)
UpdateClick(position) ==
  /\ UpdateFrame
  /\ enabled /\ ~Falsy(position)
  /\ lastPosition # NoPosition
  /\ WithinThreshold(distance(position, lastPosition), threshold)
  /\ LET elapsed == Elapsed(now, dwellStart)
         progress == Progress(elapsed, dwellTime)
     IN /\ DwellReached(elapsed, dwellTime)
        /\ ret' = ClickEvent(position, elapsed, progress)
  /\ isDwelling' = FALSE
  /\ lastPosition' = position
  /\ dwellStart' = now
  /\ epPos' = position /\ epAt' = now /\ epFull' = FALSE

(* update(position): still dwelling, dwell time not reached *)
UpdateProgress(position) ==
  /\ UpdateFrame
  /\ enabled /\ ~Falsy(position)
  /\ lastPosition # NoPosition
  /\ WithinThreshold(distance(position, lastPosition), threshold)
  /\ LET elapsed == Elapsed(now, dwellStart)
         progress == Progress(elapsed, dwellTime)
     IN /\ ~DwellReached(elapsed, dwellTime)
        /\ ret' = Event("update", position, "dwell_progress", lastPosition,
                        progress, elapsed,
                        IF progressCallback THEN progress ELSE NoProgress)
        /\ epFull' = (epFull \/ progress.num >= progress.den)
  /\ UNCHANGED <<dwellStart, lastPosition, isDwelling, epPos, epAt>>

(* update(position): moved away *)
UpdateMoved(position) ==
  /\ UpdateFrame
  /\ enabled /\ ~Falsy(position)
  /\ lastPosition # NoPosition
  /\ ~WithinThreshold(distance(position, lastPosition), threshold)
  /\ lastPosition' = position
  /\ dwellStart' = now
  /\ isDwelling' = TRUE
  /\ ret' = Event("update", position, IF isDwelling THEN "dwell_cancel" ELSE "dwell_start",
                  position, NoProgress, Null, NoProgress)
  /\ epPos' = position /\ epAt' = now /\ epFull' = FALSE

(* dwellDetector.update(position), as part of a larger step *)
updateBody(position) ==
  \/ UpdateIgnored(position)
  \/ UpdateFirst(position)
  \/ UpdateClick(position)
  \/ UpdateProgress(position)
  \/ UpdateMoved(position)

update(position) == updateBody(position) /\ UNCHANGED besideDwell

reset ==
  /\ dwellStart' = Null
  /\ isDwelling' = FALSE
  /\ ret' = None("reset", NoPosition)
  /\ UNCHANGED <<dwellTime, threshold, enabled, lastPosition, progressCallback, now, epPos, epAt, epFull, besideDwell>>

onProgress ==
  /\ progressCallback' = TRUE
  /\ ret' = None("onProgress", NoPosition)
  /\ UNCHANGED <<dwellTime, threshold, enabled, dwellStart, lastPosition, isDwelling,
                 now, epPos, epAt, epFull, besideDwell>>

(* dwellDetector.setEnabled(e), as part of a larger step *)
setEnabledBody(e) ==
  /\ enabled' = e
  /\ IF ~e THEN dwellStart' = Null /\ isDwelling' = FALSE
           ELSE UNCHANGED <<dwellStart, isDwelling>>
  /\ ret' = None(IF e THEN "enable" ELSE "disable", NoPosition)
  /\ UNCHANGED <<dwellTime, threshold, lastPosition, progressCallback,
                 now, epPos, epAt, epFull>>

setEnabled(e) == setEnabledBody(e) /\ UNCHANGED besideDwell

setDwellTime(time) ==
  /\ dwellTime' = time
  /\ ret' = None("setDwellTime", NoPosition)
  /\ UNCHANGED <<threshold, enabled, dwellStart, lastPosition, isDwelling, progressCallback, now, epPos, epAt, epFull, besideDwell>>

setThreshold(t) ==
  /\ threshold' = t
  /\ ret' = None("setThreshold", NoPosition)
  /\ UNCHANGED <<dwellTime, enabled, dwellStart, lastPosition, isDwelling, progressCallback, now, epPos, epAt, epFull, besideDwell>>

(* getProgress(): 0 unless dwelling with a timer, else min(elapsed/dwellTime, 1) *)
getProgress ==
  /\ LET progress == IF ~isDwelling \/ dwellStart = Null
                     THEN [num |-> 0, den |-> 1]
                     ELSE Progress(Elapsed(now, dwellStart), dwellTime)
     IN /\ ret' = Event("getProgress", NoPosition, "none", NoPosition, progress, Null, NoProgress)
        /\ epFull' = (epFull \/ progress.num >= progress.den)
  /\ UNCHANGED <<dwellTime, threshold, enabled, dwellStart, lastPosition, isDwelling,
                 progressCallback, now, epPos, epAt, besideDwell>>

(* isDwellingNow() *)
isDwellingNow == isDwelling /\ dwellStart # Null

(* time passes between two calls *)
Tick ==
  /\ \E d \in 1 .. 2 : now + d <= MaxTime /\ now' = now + d
  /\ UNCHANGED <<dwellTime, threshold, enabled, dwellStart, lastPosition, isDwelling,
                 progressCallback, ret, epPos, epAt, epFull, besideDwell>>

(* the wall clock is set back between two calls *)
ClockBack ==
  /\ now > StartTime /\ now' = now - 1
  /\ UNCHANGED <<dwellTime, threshold, enabled, dwellStart, lastPosition, isDwelling,
                 progressCallback, ret, epPos, epAt, epFull, besideDwell>>

DwellNext ==
  \/ \E position \in Arguments : update(position)
  \/ reset
  \/ onProgress
  \/ \E e \in BOOLEAN : setEnabled(e)
  \/ \E time \in DwellTimes : setDwellTime(time)
  \/ \E t \in Thresholds : setThreshold(t)
  \/ getProgress
  \/ Tick
  \/ ClockBack

----------------------------------------------------------------------------
(* JavaScript numbers.  A number is an integer count of thousandths (Unit) *)
(* or one of NaN (Undef), Infinity, -Infinity; products and quotients are  *)
(* cut to a whole count of thousandths, as a double is cut to 53 bits.     *)

Unit == 1000

IsFinite(a) == a # Undef /\ a # Infinity /\ a # -Infinity

(* integer quotient, cut toward zero *)
Quot(a, b) ==
  LET p == IF a < 0 THEN -a ELSE a
      q == IF b < 0 THEN -b ELSE b
  IN IF (a < 0) = (b < 0) THEN p \div q ELSE -(p \div q)

(* a + b *)
NumAdd(a, b) ==
  IF IsNaN(a) \/ IsNaN(b) THEN Undef
  ELSE IF ~IsFinite(a) THEN (IF ~IsFinite(b) /\ b # a THEN Undef ELSE a)
  ELSE IF ~IsFinite(b) THEN b
  ELSE a + b

(* a - b *)
NumSub(a, b) == IF IsNaN(b) THEN Undef ELSE NumAdd(a, -b)

(* a * b *)
NumMul(a, b) ==
  IF IsNaN(a) \/ IsNaN(b) THEN Undef
  ELSE IF ~IsFinite(a) \/ ~IsFinite(b)
       THEN IF a = 0 \/ b = 0 THEN Undef
            ELSE IF (a < 0) = (b < 0) THEN Infinity ELSE -Infinity
  ELSE Quot(a * b, Unit)

(* a / b; the zeros the model divides by are positive zeros *)
NumDiv(a, b) ==
  IF IsNaN(a) \/ IsNaN(b) THEN Undef
  ELSE IF ~IsFinite(a)
       THEN IF ~IsFinite(b) THEN Undef
            ELSE IF (a < 0) = (b < 0) THEN Infinity ELSE -Infinity
  ELSE IF ~IsFinite(b) THEN 0
  ELSE IF b = 0
       THEN IF a = 0 THEN Undef ELSE IF a > 0 THEN Infinity ELSE -Infinity
  ELSE Quot(a * Unit, b)

----------------------------------------------------------------------------
(* featureExtraction.js: areEyeFeaturesValid, averageFeatures.            *)
(* Feature values are numbers in thousandths: 0.5 is 500, 5 is 5000, 3 is  *)
(* 3000.                                                                   *)

MaxSamples == 2
MaxRecords == 2

minAperture == 500
maxOffset == 5000
maxSymmetryDiff == 3000

(* a < b and a > b on numbers; false when an operand is undefined (NaN) *)
Lt(a, b) == ~IsNaN(a) /\ ~IsNaN(b) /\ a < b
Gt(a, b) == ~IsNaN(a) /\ ~IsNaN(b) /\ a > b

(* Math.abs *)
Abs(a) == IF IsNaN(a) THEN Undef ELSE IF a < 0 THEN -a ELSE a

(* the object {} : every property reads as undefined *)
EmptyObject ==
  [leftIrisX |-> Undef, leftIrisY |-> Undef, leftAperture |-> Undef,
   rightIrisX |-> Undef, rightIrisY |-> Undef, rightAperture |-> Undef,
   irisSymmetry |-> Undef, apertureSymmetry |-> Undef]

(* the normalized object that belongs to a vector (averageFeatures, avgNormalized) *)
NormalizedOf(v) ==
  [leftIrisX |-> v[1], leftIrisY |-> v[2], leftAperture |-> v[3],
   rightIrisX |-> v[4], rightIrisY |-> v[5], rightAperture |-> v[6],
   irisSymmetry |-> v[7], apertureSymmetry |-> v[8]]

(* the null that extractEyeFeatures returns *)
NullFeatures == [null |-> TRUE]

(* areEyeFeaturesValid(features), features null or an object with a *)
(* normalized property                                              *)
areEyeFeaturesValid(features) ==
  LET normalized == features.normalized
  IN /\ features # NullFeatures
     /\ ~(Lt(normalized.leftAperture, minAperture) \/ Lt(normalized.rightAperture, minAperture))
     /\ ~(\/ Gt(Abs(normalized.leftIrisX), maxOffset)
          \/ Gt(Abs(normalized.leftIrisY), maxOffset)
          \/ Gt(Abs(normalized.rightIrisX), maxOffset)
          \/ Gt(Abs(normalized.rightIrisY), maxOffset))
     /\ ~(\/ Gt(normalized.irisSymmetry, maxSymmetryDiff)
          \/ Gt(normalized.apertureSymmetry, maxSymmetryDiff))

RECURSIVE SumAt(_, _)
SumAt(samples, index) ==
  IF samples = <<>> THEN 0
  ELSE NumAdd(Head(samples).vector[index], SumAt(Tail(samples), index))

(* featureSamples.filter(f => areEyeFeaturesValid(f)) *)
validSamplesOf(featureSamples) == SelectSeq(featureSamples, areEyeFeaturesValid)

NoFeatures == [vector |-> <<>>, sampleCount |-> 0]

(* averageFeatures(featureSamples): NoFeatures is the null result *)
averageFeatures(featureSamples) ==
  LET validSamples == validSamplesOf(featureSamples)
  IN IF featureSamples = <<>> \/ validSamples = <<>>
     THEN NoFeatures
     ELSE [vector |-> [index \in 1 .. 8 |->
                         [num |-> SumAt(validSamples, index), den |-> Len(validSamples)]],
           sampleCount |-> Len(validSamples)]

----------------------------------------------------------------------------
(* featureExtraction.js: extractEyeFeatures.  A landmark array is its      *)
(* length and the entries the extraction reads; coordinates are numbers.   *)

LANDMARK_INDICES ==
  [LEFT_EYE_INNER |-> 133, LEFT_EYE_OUTER |-> 33,
   LEFT_EYE_TOP |-> 159, LEFT_EYE_BOTTOM |-> 145,
   RIGHT_EYE_INNER |-> 362, RIGHT_EYE_OUTER |-> 263,
   RIGHT_EYE_TOP |-> 386, RIGHT_EYE_BOTTOM |-> 374,
   LEFT_IRIS_CENTER |-> 468, RIGHT_IRIS_CENTER |-> 473]

LEFT_FACE_EDGE == 234
RIGHT_FACE_EDGE == 454

UsedIndices ==
  { LANDMARK_INDICES.LEFT_EYE_INNER, LANDMARK_INDICES.LEFT_EYE_OUTER,
    LANDMARK_INDICES.LEFT_EYE_TOP, LANDMARK_INDICES.LEFT_EYE_BOTTOM,
    LANDMARK_INDICES.RIGHT_EYE_INNER, LANDMARK_INDICES.RIGHT_EYE_OUTER,
    LANDMARK_INDICES.RIGHT_EYE_TOP, LANDMARK_INDICES.RIGHT_EYE_BOTTOM,
    LANDMARK_INDICES.LEFT_IRIS_CENTER, LANDMARK_INDICES.RIGHT_IRIS_CENTER,
    LEFT_FACE_EDGE, RIGHT_FACE_EDGE }

(* the landmark count of a face mesh with iris refinement *)
MinLandmarks == 478

(* a null or undefined landmark array, and an entry an array does not hold *)
NoLandmarks == [null |-> TRUE]
NoPoint == [undefined |-> TRUE]

(* Math.sqrt of a count of squared thousandths, cut to whole thousandths *)
RECURSIVE SqrtBetween(_, _, _)
SqrtBetween(n, low, high) ==
  IF low >= high THEN low
  ELSE LET mid == (low + high + 1) \div 2
       IN IF mid * mid <= n THEN SqrtBetween(n, mid, high)
          ELSE SqrtBetween(n, low, mid - 1)

Sqrt(n) == SqrtBetween(n, 0, IF n < Unit THEN n ELSE 2 * Unit)

(* distance(point1, point2) of featureExtraction.js, on points of the unit cube *)
distance3D(point1, point2) ==
  LET dx == point1.x - point2.x
      dy == point1.y - point2.y
      dz == point1.z - point2.z
  IN Sqrt(dx * dx + dy * dy + dz * dz)

(* calculateCenter([a, b]) *)
calculateCenter(a, b) ==
  [x |-> NumDiv(a.x + b.x, 2 * Unit),
   y |-> NumDiv(a.y + b.y, 2 * Unit),
   z |-> NumDiv(a.z + b.z, 2 * Unit)]

(* variant: landmarks.length < 477 *)
TooFewLandmarksOffByOne(landmarks) ==
  landmarks = NoLandmarks \/ landmarks.length < MinLandmarks - 1

(* !landmarks || landmarks.length < 478 *)
TooFewLandmarks(landmarks) ==
  landmarks = NoLandmarks \/ landmarks.length < MinLandmarks

(* extractEyeFeatures(landmarks); reading .x of a missing entry throws, *)
(* and the catch block returns null                                     *)
extractEyeFeatures(landmarks) ==
  IF TooFewLandmarks(landmarks) THEN NullFeatures
  ELSE IF \E i \in UsedIndices : landmarks.at[i] = NoPoint THEN NullFeatures
  ELSE
    LET leftEyeInner == landmarks.at[LANDMARK_INDICES.LEFT_EYE_INNER]
        leftEyeOuter == landmarks.at[LANDMARK_INDICES.LEFT_EYE_OUTER]
        leftEyeTop == landmarks.at[LANDMARK_INDICES.LEFT_EYE_TOP]
        leftEyeBottom == landmarks.at[LANDMARK_INDICES.LEFT_EYE_BOTTOM]
        rightEyeInner == landmarks.at[LANDMARK_INDICES.RIGHT_EYE_INNER]
        rightEyeOuter == landmarks.at[LANDMARK_INDICES.RIGHT_EYE_OUTER]
        rightEyeTop == landmarks.at[LANDMARK_INDICES.RIGHT_EYE_TOP]
        rightEyeBottom == landmarks.at[LANDMARK_INDICES.RIGHT_EYE_BOTTOM]
        leftIrisCenter == landmarks.at[LANDMARK_INDICES.LEFT_IRIS_CENTER]
        rightIrisCenter == landmarks.at[LANDMARK_INDICES.RIGHT_IRIS_CENTER]
        leftEyeCenter == calculateCenter(leftEyeInner, leftEyeOuter)
        rightEyeCenter == calculateCenter(rightEyeInner, rightEyeOuter)
        leftIrisOffsetX == NumSub(leftIrisCenter.x, leftEyeCenter.x)
        leftIrisOffsetY == NumSub(leftIrisCenter.y, leftEyeCenter.y)
        rightIrisOffsetX == NumSub(rightIrisCenter.x, rightEyeCenter.x)
        rightIrisOffsetY == NumSub(rightIrisCenter.y, rightEyeCenter.y)
        leftEyeWidth == distance3D(leftEyeInner, leftEyeOuter)
        rightEyeWidth == distance3D(rightEyeInner, rightEyeOuter)
        leftEyeAperture == distance3D(leftEyeTop, leftEyeBottom)
        rightEyeAperture == distance3D(rightEyeTop, rightEyeBottom)
        leftIrisOffsetXNorm == NumDiv(leftIrisOffsetX, leftEyeWidth)
        leftIrisOffsetYNorm == NumDiv(leftIrisOffsetY, leftEyeWidth)
        rightIrisOffsetXNorm == NumDiv(rightIrisOffsetX, rightEyeWidth)
        rightIrisOffsetYNorm == NumDiv(rightIrisOffsetY, rightEyeWidth)
        leftApertureRatio == NumDiv(leftEyeAperture, leftEyeWidth)
        rightApertureRatio == NumDiv(rightEyeAperture, rightEyeWidth)
        faceWidth == distance3D(landmarks.at[LEFT_FACE_EDGE], landmarks.at[RIGHT_FACE_EDGE])
        ten == 10 * Unit
    IN [raw |->
          [leftIrisOffset |-> [x |-> leftIrisOffsetX, y |-> leftIrisOffsetY],
           rightIrisOffset |-> [x |-> rightIrisOffsetX, y |-> rightIrisOffsetY],
           leftAperture |-> leftEyeAperture, rightAperture |-> rightEyeAperture,
           leftEyeWidth |-> leftEyeWidth, rightEyeWidth |-> rightEyeWidth,
           faceWidth |-> faceWidth],
        normalized |->
          [leftIrisX |-> NumMul(leftIrisOffsetXNorm, ten),
           leftIrisY |-> NumMul(leftIrisOffsetYNorm, ten),
           leftAperture |-> NumMul(leftApertureRatio, ten),
           rightIrisX |-> NumMul(rightIrisOffsetXNorm, ten),
           rightIrisY |-> NumMul(rightIrisOffsetYNorm, ten),
           rightAperture |-> NumMul(rightApertureRatio, ten),
           irisSymmetry |-> Abs(NumSub(leftIrisOffsetXNorm, rightIrisOffsetXNorm)),
           apertureSymmetry |-> Abs(NumSub(leftApertureRatio, rightApertureRatio))],
        vector |->
          << NumMul(leftIrisOffsetXNorm, ten),
             NumMul(leftIrisOffsetYNorm, ten),
             NumMul(leftApertureRatio, ten),
             NumMul(rightIrisOffsetXNorm, ten),
             NumMul(rightIrisOffsetYNorm, ten),
             NumMul(rightApertureRatio, ten),
             NumMul(Abs(NumSub(leftIrisOffsetXNorm, rightIrisOffsetXNorm)), ten),
             NumMul(Abs(NumSub(leftApertureRatio, rightApertureRatio)), ten) >>]
(* the placement of an eye of the given shape: corners level, lids and *)
(* iris measured from the middle between the corners                   *)
EyeAt(x, y, shape) ==
  LET middle == x + shape.width \div 2
  IN [inner |-> [x |-> x, y |-> y, z |-> 0],
      outer |-> [x |-> x + shape.width, y |-> y, z |-> 0],
      top |-> [x |-> middle, y |-> y, z |-> 0],
      bottom |-> [x |-> middle, y |-> y + shape.aperture, z |-> 0],
      iris |-> [x |-> middle + shape.irisX, y |-> y + shape.irisY, z |-> 0]]

(* the entries of a face mesh with the two eyes of the given shapes *)
FaceOf(left, right) ==
  LET l == EyeAt(300, 400, left)
      r == EyeAt(600, 400, right)
  IN [i \in UsedIndices |->
        CASE i = LANDMARK_INDICES.LEFT_EYE_INNER -> l.inner
          [] i = LANDMARK_INDICES.LEFT_EYE_OUTER -> l.outer
          [] i = LANDMARK_INDICES.LEFT_EYE_TOP -> l.top
          [] i = LANDMARK_INDICES.LEFT_EYE_BOTTOM -> l.bottom
          [] i = LANDMARK_INDICES.LEFT_IRIS_CENTER -> l.iris
          [] i = LANDMARK_INDICES.RIGHT_EYE_INNER -> r.inner
          [] i = LANDMARK_INDICES.RIGHT_EYE_OUTER -> r.outer
          [] i = LANDMARK_INDICES.RIGHT_EYE_TOP -> r.top
          [] i = LANDMARK_INDICES.RIGHT_EYE_BOTTOM -> r.bottom
          [] i = LANDMARK_INDICES.RIGHT_IRIS_CENTER -> r.iris
          [] i = LEFT_FACE_EDGE -> [x |-> 100, y |-> 500, z |-> 0]
          [] i = RIGHT_FACE_EDGE -> [x |-> 900, y |-> 500, z |-> 0]]

(* an array of n entries: the entries from n on are missing *)
EntriesBelow(n, entries) ==
  [i \in UsedIndices |-> IF i < n THEN entries[i] ELSE NoPoint]

OpenEye == [width |-> 100, irisX |-> 10, irisY |-> 0, aperture |-> 30]
GlancingEye == [width |-> 100, irisX |-> 20, irisY |-> 10, aperture |-> 40]
StraightEye == [width |-> 100, irisX |-> 0, irisY |-> 10, aperture |-> 40]
ClosedEye == [width |-> 100, irisX |-> 10, irisY |-> 0, aperture |-> 0]

(* the feature objects handed to addSample: an open-eye reading and a *)
(* blink (both apertures 0)                                           *)
SampleLandmarks ==
  { [length |-> MinLandmarks, at |-> FaceOf(GlancingEye, StraightEye)],
    [length |-> MinLandmarks, at |-> FaceOf(ClosedEye, ClosedEye)] }
SampleFeatures == { extractEyeFeatures(landmarks) : landmarks \in SampleLandmarks }
SampleVectors == { features.vector : features \in SampleFeatures }
Targets == { [x |-> 100, y |-> 100], [x |-> 500, y |-> 100] }

(* the inputs of extractEyeFeatures: no array, arrays that are too short, *)
(* one of 478 holes, and full meshes over a range of eye shapes           *)
EyeShapes ==
  [width : {0, 100, 200}, irisX : {-60, -20, 0, 20, 50}, irisY : {0, 60},
   aperture : {0, 10, 40}]

ShortLengths == {0, 400, MinLandmarks - 1}

LandmarkInputs ==
  {NoLandmarks}
    \cup { [length |-> n, at |-> EntriesBelow(n, FaceOf(OpenEye, OpenEye))] : n \in ShortLengths }
    \cup { [length |-> MinLandmarks, at |-> [i \in UsedIndices |-> NoPoint]] }
    \cup { [length |-> MinLandmarks, at |-> FaceOf(left, right)] :
             left \in EyeShapes, right \in EyeShapes }

(* a frame of landmarks is at hand *)
FeatInit == featRet = [op |-> "frame", arg |-> NoLandmarks]

(* a call of extractEyeFeatures on the frame *)
extract ==
  /\ featRet.op = "frame"
  /\ featRet' = [op |-> "extractEyeFeatures", arg |-> featRet.arg,
                 features |-> extractEyeFeatures(featRet.arg)]
  /\ UNCHANGED besideFeat

(* a call of areEyeFeaturesValid on the features extracted last *)
validate ==
  /\ featRet.op = "extractEyeFeatures"
  /\ featRet' = [op |-> "areEyeFeaturesValid", arg |-> featRet.features,
                 valid |-> areEyeFeaturesValid(featRet.features)]
  /\ UNCHANGED besideFeat

FeatNext ==
  \/ extract
  \/ validate

----------------------------------------------------------------------------
(* calibration.js *)

(* the feature objects completeCurrentPoint builds from the buffer *)
featureSamplesOf(samples) ==
  [i \in 1 .. Len(samples) |-> [vector |-> samples[i].features, normalized |-> EmptyObject]]

(* what a call found when it began *)
Before ==
  [points |-> Len(points), buffered |-> Len(currentSamples),
   collecting |-> isCalibrating, index |-> currentPointIndex]

CalResult(op, ok) == [op |-> op, ok |-> ok, before |-> Before]

(* variant: this.points.unshift(record) *)
PushPointFront(list, record) == <<record>> \o list

(* this.points.push(record) *)
PushPoint(list, record) == Append(list, record)

CalInit ==
  /\ points = <<>>
  /\ isCalibrating = FALSE
  /\ currentPointIndex = 0
  /\ currentSamples = <<>>
  /\ calRet = CalResult("new", TRUE)

(* variant: startCalibration that leaves the sample buffer *)
startCalibrationKeepsBuffer ==
  /\ points' = <<>>
  /\ isCalibrating' = TRUE
  /\ currentPointIndex' = 0
  /\ calRet' = CalResult("startCalibration", TRUE)
  /\ UNCHANGED currentSamples
  /\ UNCHANGED besideCal

startCalibration ==
  /\ points' = <<>>
  /\ isCalibrating' = TRUE
  /\ currentPointIndex' = 0
  /\ currentSamples' = <<>>
  /\ calRet' = CalResult("startCalibration", TRUE)
  /\ UNCHANGED besideCal

(* variant: addSample without the isCalibrating test *)
addSampleAlways(features, targetX, targetY) ==
  /\ currentSamples' = Append(currentSamples,
        [features |-> features.vector, targetX |-> targetX, targetY |-> targetY])
  /\ calRet' = CalResult("addSample", TRUE)
  /\ UNCHANGED <<points, isCalibrating, currentPointIndex>>
  /\ UNCHANGED besideCal

addSample(features, targetX, targetY) ==
  /\ IF ~isCalibrating
     THEN UNCHANGED currentSamples
     ELSE currentSamples' = Append(currentSamples,
            [features |-> features.vector, targetX |-> targetX, targetY |-> targetY])
  /\ calRet' = CalResult("addSample", TRUE)
  /\ UNCHANGED <<points, isCalibrating, currentPointIndex>>
  /\ UNCHANGED besideCal

completeCurrentPoint ==
  /\ LET avgFeatures == averageFeatures(featureSamplesOf(currentSamples))
     IN IF currentSamples = <<>> \/ avgFeatures = NoFeatures
        THEN /\ calRet' = CalResult("completeCurrentPoint", FALSE)
             /\ UNCHANGED <<points, currentSamples, currentPointIndex>>
        ELSE /\ points' = PushPoint(points,
                   [targetX |-> currentSamples[1].targetX,
                    targetY |-> currentSamples[1].targetY,
                    features |-> avgFeatures.vector,
                    sampleCount |-> avgFeatures.sampleCount])
             /\ currentSamples' = <<>>
             /\ currentPointIndex' = currentPointIndex + 1
             /\ calRet' = CalResult("completeCurrentPoint", TRUE)
  /\ UNCHANGED isCalibrating
  /\ UNCHANGED besideCal

finishCalibration ==
  /\ isCalibrating' = FALSE
  /\ calRet' = [op |-> "finishCalibration", ok |-> TRUE, before |-> Before,
                 data |-> points]
  /\ UNCHANGED <<points, currentPointIndex, currentSamples>>
  /\ UNCHANGED besideCal

(* localStorage.getItem of a key that is not there *)
NoItem == [null |-> TRUE]

StoreInit == storage = NoItem /\ saved = <<>>

(* items of the key that the manager did not write: text that is no JSON,
   the text null, and an object without points (what JSON.stringify writes
   when points is undefined) *)
Unparsable == [text |-> "no json"]
JsonNull == [json |-> "null"]
NoPointsObject == [version |-> "1.0"]
ForeignItems == {Unparsable, JsonNull, NoPointsObject}

(* this.points after `this.points = data.points` found no points: *)
(* undefined, which is no list of records                         *)
UndefinedPoints == << [undefined |-> TRUE] >>

(* JSON.stringify of a number: NaN and the infinities are written as null *)
stringifyNumber(n) == IF IsFinite(n) THEN [number |-> n] ELSE [null |-> TRUE]

(* JSON.parse of what stringifyNumber wrote *)
parseNumber(text) == IF text = [null |-> TRUE] THEN Null ELSE text.number

(* the same for an averaged feature, a sum over a count *)
stringifyRatio(r) == IF IsFinite(r.num) THEN [number |-> r] ELSE [null |-> TRUE]

stringifyVector(vector) == [i \in DOMAIN vector |-> stringifyRatio(vector[i])]
(* null read back where an averaged feature was written *)
parseRatio(text) == IF text = [null |-> TRUE] THEN [num |-> Null, den |-> 1] ELSE text.number

parseVector(text) == [i \in DOMAIN text |-> parseRatio(text[i])]

(* JSON.stringify of one record of this.points *)
stringifyPoint(point) ==
  [targetX |-> stringifyNumber(point.targetX),
   targetY |-> stringifyNumber(point.targetY),
   features |-> stringifyVector(point.features),
   sampleCount |-> stringifyNumber(point.sampleCount)]

parsePoint(text) ==
  [targetX |-> parseNumber(text.targetX),
   targetY |-> parseNumber(text.targetY),
   features |-> parseVector(text.features),
   sampleCount |-> parseNumber(text.sampleCount)]

(* JSON.stringify({ points, timestamp, version }) *)
stringify(data) ==
  [points |-> [i \in DOMAIN data.points |-> stringifyPoint(data.points[i])],
   version |-> data.version]

(* JSON.parse(stored) *)
parse(text) ==
  [points |-> [i \in DOMAIN text.points |-> parsePoint(text.points[i])],
   version |-> text.version]

(* new CalibrationManager(): localStorage outlives the object *)
newManager ==
  /\ points' = <<>>
  /\ isCalibrating' = FALSE
  /\ currentPointIndex' = 0
  /\ currentSamples' = <<>>
  /\ calRet' = CalResult("new", TRUE)
  /\ UNCHANGED besideCal

saveToStorage ==
  /\ storage' = IF points = UndefinedPoints THEN NoPointsObject
                ELSE stringify([points |-> points, version |-> "1.0"])
  /\ saved' = points
  /\ calRet' = CalResult("saveToStorage", TRUE)
  /\ UNCHANGED <<points, isCalibrating, currentPointIndex, currentSamples>>
  /\ UNCHANGED besideManager

(* loadFromStorage(): no item; JSON.parse throws; data is null and
   data.points throws; data.points is undefined, assigned, and the
   this.points.length of the log line throws; or the list is taken *)
loadFromStorage ==
  /\ IF storage \in {NoItem, Unparsable, JsonNull}
     THEN /\ calRet' = CalResult("loadFromStorage", FALSE)
          /\ UNCHANGED points
     ELSE IF "points" \notin DOMAIN storage
     THEN /\ points' = UndefinedPoints
          /\ calRet' = CalResult("loadFromStorage", FALSE)
     ELSE /\ points' = parse(storage).points
          /\ calRet' = CalResult("loadFromStorage", TRUE)
  /\ UNCHANGED <<isCalibrating, currentPointIndex, currentSamples>>
  /\ UNCHANGED <<storage, saved>>
  /\ UNCHANGED besideManager

(* localStorage.setItem of the key by something else on the page *)
setItem(item) ==
  /\ storage' = item
  /\ saved' = <<>>
  /\ UNCHANGED calVars
  /\ UNCHANGED besideManager

clear ==
  /\ points' = <<>>
  /\ currentSamples' = <<>>
  /\ currentPointIndex' = 0
  /\ storage' = NoItem
  /\ calRet' = CalResult("clear", TRUE)
  /\ UNCHANGED <<isCalibrating, saved>>
  /\ UNCHANGED besideManager

CalNext ==
  \/ startCalibration
  \/ \E features \in SampleFeatures, target \in Targets :
       Len(currentSamples) < MaxSamples /\ addSample(features, target.x, target.y)
  \/ (Len(points) < MaxRecords /\ completeCurrentPoint)
  \/ finishCalibration
  \/ clear

----------------------------------------------------------------------------
(* smoothing.js: OneEuroFilter and GazeSmoother.  Values, rates, cutoffs   *)
(* and alphas are numbers (thousandths); timestamps are milliseconds, so   *)
(* a difference of timestamps divided by 1000 is a number of seconds with  *)
(* the same digits.                                                        *)

MaxCalls == 3

(* Math.PI *)
PI == 3142

(* new OneEuroFilter(freq, mincutoff, beta, dcutoff) *)
OneEuroFilter(freq, mincutoff, beta, dcutoff) ==
  [freq |-> freq, mincutoff |-> mincutoff, beta |-> beta, dcutoff |-> dcutoff,
   x |-> Null, dx |-> 0, lasttime |-> Null]

(* this.lowpass(value, alpha) of the filter f *)
lowpass(f, value, a) ==
  IF f.x = Null THEN value
  ELSE NumAdd(NumMul(a, value), NumMul(NumSub(Unit, a), f.x))

(* this.alpha(cutoff) of the filter f *)
alpha(f, cutoff) ==
  LET tau == NumDiv(Unit, NumMul(NumMul(2 * Unit, PI), cutoff))
      te == NumDiv(Unit, f.freq)
  IN NumDiv(Unit, NumAdd(Unit, NumDiv(tau, te)))

(* this.filter(value, timestamp) of the filter f: the filter afterwards *)
(* and the value returned                                               *)
filter(f, value, timestamp) ==
  IF f.lasttime = Null
  THEN [filter |-> [f EXCEPT !.x = value, !.dx = 0, !.lasttime = timestamp],
        out |-> value]
  ELSE LET dt == timestamp - f.lasttime
           timed == [f EXCEPT !.lasttime = timestamp,
                              !.freq = IF dt > 0 THEN NumDiv(Unit, dt) ELSE @]
           dvalue == NumDiv(NumSub(value, f.x), dt)
           edvalue == lowpass(timed, dvalue, alpha(timed, timed.dcutoff))
           cutoff == NumAdd(timed.mincutoff, NumMul(timed.beta, Abs(edvalue)))
           x == lowpass(timed, value, alpha(timed, cutoff))
       IN [filter |-> [timed EXCEPT !.dx = edvalue, !.x = x], out |-> x]

(* variant: a reset that clears nothing *)
resetFilterKeepsState(f) == f

(* this.reset() of the filter f *)
resetFilter(f) == [f EXCEPT !.x = Null, !.dx = 0, !.lasttime = Null]

(* the arguments of smooth and setParameters *)
GazeValues == {0, Unit}
Timestamps == {1000, 1033, 1066}
ParameterSets ==
  { [mincutoff |-> Undef, beta |-> 0, dcutoff |-> Undef],
    [mincutoff |-> 2 * Unit, beta |-> Undef, dcutoff |-> 2 * Unit] }

(* new GazeSmoother(30) *)
SmoothInit ==
  /\ xFilter = OneEuroFilter(30 * Unit, Unit, 7, Unit)
  /\ yFilter = OneEuroFilter(30 * Unit, Unit, 7, Unit)
  /\ smoothCalls = 0
  /\ smoothRet = [op |-> "new"]

(* variant: both coordinates go through the x filter, one after the other *)
filterBothOnOne(xf, yf, x, y, timestamp) ==
  LET fx == filter(xf, x, timestamp)
  IN [x |-> fx, y |-> filter(fx.filter, y, timestamp)]

(* the two filter calls of smooth, on the filters xf and yf *)
filterBoth(xf, yf, x, y, timestamp) ==
  [x |-> filter(xf, x, timestamp), y |-> filter(yf, y, timestamp)]

(* gazeSmoother.smooth(x, y, timestamp), as part of a larger step *)
smoothBody(x, y, timestamp) ==
  LET both == filterBoth(xFilter, yFilter, x, y, timestamp)
      fx == both.x
      fy == both.y
  IN /\ xFilter' = fx.filter
     /\ yFilter' = fy.filter
     /\ smoothCalls' = smoothCalls + 1
     /\ smoothRet' = [op |-> "smooth", x |-> x, y |-> y, timestamp |-> timestamp,
                      first |-> xFilter.lasttime = Null,
                      out |-> [x |-> fx.out, y |-> fy.out]]

smooth(x, y, timestamp) == smoothBody(x, y, timestamp) /\ UNCHANGED besideSmooth

(* gazeSmoother.reset() *)
resetSmoother ==
  /\ xFilter' = resetFilter(xFilter)
  /\ yFilter' = resetFilter(yFilter)
  /\ smoothRet' = [op |-> "reset"]
  /\ UNCHANGED smoothCalls
  /\ UNCHANGED besideSmooth

(* the filter f after setParameters(params) *)
withParameters(f, params) ==
  [f EXCEPT !.mincutoff = IF params.mincutoff # Undef THEN params.mincutoff ELSE @,
            !.beta = IF params.beta # Undef THEN params.beta ELSE @,
            !.dcutoff = IF params.dcutoff # Undef THEN params.dcutoff ELSE @]

(* gazeSmoother.setParameters(params) *)
setParameters(params) ==
  /\ xFilter' = withParameters(xFilter, params)
  /\ yFilter' = withParameters(yFilter, params)
  /\ smoothRet' = [op |-> "setParameters", params |-> params]
  /\ UNCHANGED smoothCalls
  /\ UNCHANGED besideSmooth

SmoothNext ==
  \/ \E x \in GazeValues, y \in GazeValues, timestamp \in Timestamps :
       smoothCalls < MaxCalls /\ smooth(x, y, timestamp)
  \/ resetSmoother
  \/ \E params \in ParameterSets : setParameters(params)

----------------------------------------------------------------------------
(* prediction.js: GazePredictionModel.  The network is its existence and   *)
(* whether it has been fitted; what it predicts is any point of the        *)
(* screen, in percent.  model.fit is asynchronous: a call of train is      *)
(* suspended at the await and resumes when the fit settles.                *)

MaxFits == 2

(* calibrationData.length < 9 *)
MinTrainingRecords == 9

(* the outputs of the network, percent of the window *)
Predictions == { [x |-> 50 * Unit, y |-> 50 * Unit], [x |-> 53 * Unit, y |-> 50 * Unit] }

(* predict returning null *)
NoPrediction == [null |-> TRUE]

PredBefore == [model |-> model, isTrained |-> isTrained, fitted |-> fitted]

PredResult(op, arg, result) ==
  [op |-> op, arg |-> arg, result |-> result, before |-> PredBefore]

PredInit ==
  /\ model = FALSE
  /\ isTrained = FALSE
  /\ fitted = FALSE
  /\ fits = [live |-> 0, dead |-> 0]
  /\ predRet = PredResult("new", 0, "ok")

(* variant: the flag is raised before the data is looked at *)
trainBodyFlagFirst(length) ==
  /\ model' = TRUE
  /\ fitted' = (model /\ fitted)
  /\ isTrained' = TRUE
  /\ IF length < MinTrainingRecords
     THEN /\ predRet' = PredResult("train", length, "error")
          /\ UNCHANGED fits
     ELSE /\ predRet' = PredResult("train", length, "pending")
          /\ fits' = [fits EXCEPT !.live = @ + 1]

(* train(calibrationData) up to the await: the model is created when there
   is none, fewer than 9 records throw, else model.fit is started *)
trainBody(length) ==
  /\ model' = TRUE
  /\ fitted' = (model /\ fitted)
  /\ UNCHANGED isTrained
  /\ IF length < MinTrainingRecords
     THEN /\ predRet' = PredResult("train", length, "error")
          /\ UNCHANGED fits
     ELSE /\ predRet' = PredResult("train", length, "pending")
          /\ fits' = [fits EXCEPT !.live = @ + 1]

train(length) == trainBody(length) /\ UNCHANGED besidePred

(* model.fit resolves: train resumes and sets the flag *)
fitResolvesBody ==
  /\ fits.live > 0
  /\ fits' = [fits EXCEPT !.live = @ - 1]
  /\ isTrained' = TRUE
  /\ fitted' = TRUE
  /\ predRet' = PredResult("fit", 0, "resolved")
  /\ UNCHANGED model

fitResolves == fitResolvesBody /\ UNCHANGED besidePred

(* model.fit rejects, as it does on a model that was disposed meanwhile:
   train rethrows *)
fitRejectsBody ==
  /\ fits.live > 0 \/ fits.dead > 0
  /\ \E which \in {"live", "dead"} :
       /\ fits[which] > 0
       /\ fits' = [fits EXCEPT ![which] = @ - 1]
  /\ predRet' = PredResult("fit", 0, "rejected")
  /\ UNCHANGED <<model, isTrained, fitted>>

fitRejects == fitRejectsBody /\ UNCHANGED besidePred

(* variant: predict that looks at the model only *)
predictResultModelOnly(prediction) ==
  IF ~model THEN NoPrediction ELSE prediction

(* what predict(featureVector) returns when the network answers prediction *)
predictResult(prediction) ==
  IF ~model \/ ~isTrained THEN NoPrediction ELSE prediction

predictBody(featureVector, prediction) ==
  /\ predRet' = PredResult("predict", featureVector, predictResult(prediction))
  /\ UNCHANGED <<model, isTrained, fitted, fits>>

predict(featureVector, prediction) ==
  predictBody(featureVector, prediction) /\ UNCHANGED besidePred

(* loadModel(): the stored model is there and becomes this.model, or the
   load throws and nothing is assigned *)
loadModelBody(loaded) ==
  /\ IF loaded
     THEN /\ model' = TRUE /\ isTrained' = TRUE /\ fitted' = TRUE
          /\ fits' = [live |-> 0, dead |-> fits.dead + fits.live]
     ELSE UNCHANGED <<model, isTrained, fitted, fits>>
  /\ predRet' = PredResult("loadModel", 0, IF loaded THEN "ok" ELSE "error")

loadModel(loaded) == loadModelBody(loaded) /\ UNCHANGED besidePred

(* dispose() *)
dispose ==
  /\ IF model
     THEN /\ model' = FALSE /\ isTrained' = FALSE /\ fitted' = FALSE
          /\ fits' = [live |-> 0, dead |-> fits.dead + fits.live]
     ELSE UNCHANGED <<model, isTrained, fitted, fits>>
  /\ predRet' = PredResult("dispose", 0, "ok")
  /\ UNCHANGED besidePred

PredNext ==
  \/ \E length \in {0, MinTrainingRecords - 1, MinTrainingRecords} :
       fits.live + fits.dead < MaxFits /\ train(length)
  \/ fitResolves
  \/ fitRejects
  \/ \E featureVector \in SampleVectors, prediction \in Predictions :
       predict(featureVector, prediction)
  \/ \E loaded \in BOOLEAN : loadModel(loaded)
  \/ dispose

----------------------------------------------------------------------------
(* App.jsx and Calibration.jsx: the application.  Lengths are in the      *)
(* detector's units and times in ticks (TickMs milliseconds each).        *)

MaxFrames == 1
MaxTrainings == 1

TickMs == 200
innerWidth == 1000
innerHeight == 1000

AppInit ==
  /\ isInitialized = FALSE
  /\ error = FALSE
  /\ faceDetected = FALSE
  /\ mode = "detection"
  /\ appCalibrating = FALSE
  /\ eyeFeatures = NullFeatures
  /\ modelTrained = FALSE
  /\ currentPoint = 0
  /\ isCollecting = FALSE
  /\ collectInterval = "cleared"
  /\ saves = 0
  /\ appRet = [op |-> "mount"]

Init ==
  DwellInit /\ CalInit /\ FeatInit /\ SmoothInit /\ StoreInit /\ PredInit /\ AppInit

DwellSpec == Init /\ [][DwellNext]_vars

(* A sustained fixation: the gaze stays within the threshold of the anchor,
   an update arrives for every frame and the clock advances.  Frames arrive
   from the camera loop and time passes, hence the weak fairness. *)
MaxFixation == 6
FixationEnd == StartTime + MaxFixation

FixationTick ==
  /\ now < FixationEnd /\ now' = now + 1
  /\ UNCHANGED <<dwellTime, threshold, enabled, dwellStart, lastPosition, isDwelling,
                 progressCallback, ret, epPos, epAt, epFull, besideDwell>>

Fixate ==
  \E position \in Positions :
    /\ lastPosition # NoPosition
         => WithinThreshold(distance(position, lastPosition), threshold)
    /\ update(position)

FixationNext == Fixate \/ FixationTick

FixationSpec ==
  Init /\ [][FixationNext]_vars /\ WF_vars(Fixate) /\ WF_vars(FixationTick)

(* the calibration manager alone, beside one idle dwell detector *)
CalOnlyInit == Init /\ dwellTime = 3 /\ threshold = 2

CalSpec == CalOnlyInit /\ [][CalNext]_vars

(* feature extraction alone, and the smoother alone *)
ExtractInit ==
  /\ DwellInit /\ dwellTime = 3 /\ threshold = 2
  /\ CalInit
  /\ SmoothInit
  /\ StoreInit
  /\ PredInit
  /\ AppInit
  /\ \E landmarks \in LandmarkInputs : featRet = [op |-> "frame", arg |-> landmarks]

ExtractSpec == ExtractInit /\ [][FeatNext]_vars

SmoothSpec == CalOnlyInit /\ [][SmoothNext]_vars

(* calibration with persistence: records are built, saved, and loaded by *)
(* the same manager or by a new one.  The readings are an open-eye mesh  *)
(* and a mesh whose eye corners coincide (eye width 0).                  *)
PinchedEye == [width |-> 0, irisX |-> 0, irisY |-> 10, aperture |-> 40]
StoreLandmarks ==
  { [length |-> MinLandmarks, at |-> FaceOf(GlancingEye, StraightEye)],
    [length |-> MinLandmarks, at |-> FaceOf(PinchedEye, PinchedEye)] }
StoreFeatures == { extractEyeFeatures(landmarks) : landmarks \in StoreLandmarks }

StoreNext ==
  \/ startCalibration
  \/ \E features \in StoreFeatures :
       currentSamples = <<>> /\ addSample(features, 100, 100)
  \/ /\ points # UndefinedPoints
     /\ Len(points) < MaxRecords /\ currentPointIndex < MaxRecords
     /\ completeCurrentPoint
  \/ saveToStorage
  \/ loadFromStorage
  \/ \E item \in ForeignItems : setItem(item)
  \/ newManager
  \/ clear

StoreSpec == CalOnlyInit /\ [][StoreNext]_vars

PredSpec == CalOnlyInit /\ [][PredNext]_vars

(* variant: the grid visited column by column *)
calibrationPointsByColumn ==
  << [x |-> 10, y |-> 10, id |-> 1], [x |-> 10, y |-> 50, id |-> 2],
     [x |-> 10, y |-> 90, id |-> 3], [x |-> 50, y |-> 10, id |-> 4],
     [x |-> 50, y |-> 50, id |-> 5], [x |-> 50, y |-> 90, id |-> 6],
     [x |-> 90, y |-> 10, id |-> 7], [x |-> 90, y |-> 50, id |-> 8],
     [x |-> 90, y |-> 90, id |-> 9] >>

(* Calibration.jsx: the nine targets, in percent of the window *)
calibrationPoints ==
  << [x |-> 10, y |-> 10, id |-> 1], [x |-> 50, y |-> 10, id |-> 2],
     [x |-> 90, y |-> 10, id |-> 3], [x |-> 10, y |-> 50, id |-> 4],
     [x |-> 50, y |-> 50, id |-> 5], [x |-> 90, y |-> 50, id |-> 6],
     [x |-> 10, y |-> 90, id |-> 7], [x |-> 50, y |-> 90, id |-> 8],
     [x |-> 90, y |-> 90, id |-> 9] >>

(* totalPoints; handleCalibrationComplete asks for as many records *)
pointCount == 9

(* the frames of a session, and their features: eyeFeatures is set only *)
(* to features that pass the validity check                             *)
SessionLandmarks ==
  { [length |-> MinLandmarks, at |-> FaceOf(OpenEye, OpenEye)],
    [length |-> MinLandmarks, at |-> FaceOf(GlancingEye, StraightEye)],
    [length |-> MinLandmarks, at |-> FaceOf(ClosedEye, ClosedEye)] }
SessionFeatures ==
  { f \in { extractEyeFeatures(landmarks) : landmarks \in SessionLandmarks } :
      areEyeFeaturesValid(f) }

(* collectDataForPoint: a sample for the target of the current point, the *)
(* window being 1000 by 1000                                              *)
collectSample(features) ==
  LET point == calibrationPoints[currentPointIndex + 1]
  IN addSample(features, point.x * 10, point.y * 10)

(* one calibration session after another: a sample, then the point is *)
(* completed, nine times, then finish                                 *)
SessionNext ==
  \/ startCalibration
  \/ \E features \in SessionFeatures :
       /\ currentSamples = <<>>
       /\ currentPointIndex < pointCount
       /\ collectSample(features)
  \/ (currentSamples # <<>> /\ completeCurrentPoint)
  \/ finishCalibration

SessionSpec == CalOnlyInit /\ [][SessionNext]_vars

(* the manager called in any order by any caller: one sample a point, and
   no overlay to stop at the ninth *)
MaxPoints == 10

ManagerNext ==
  \/ startCalibration
  \/ \E features \in SessionFeatures :
       currentSamples = <<>> /\ addSample(features, 100, 100)
  \/ (Len(points) < MaxPoints /\ completeCurrentPoint)
  \/ finishCalibration
  \/ clear

ManagerSpec == CalOnlyInit /\ [][ManagerNext]_vars

----------------------------------------------------------------------------
(* App.jsx: the handlers of the application *)

(* the frames: no face, a mesh that is too short, an open-eye mesh, a blink *)
AppLandmarks ==
  { NoLandmarks,
    [length |-> MinLandmarks - 1,
     at |-> EntriesBelow(MinLandmarks - 1, FaceOf(OpenEye, OpenEye))],
    [length |-> MinLandmarks, at |-> FaceOf(GlancingEye, StraightEye)],
    [length |-> MinLandmarks, at |-> FaceOf(ClosedEye, ClosedEye)] }

(* extractEyeFeatures(landmarks) for each of the frames *)
FeaturesOf == [landmarks \in AppLandmarks |-> extractEyeFeatures(landmarks)]

(* what the network answers in the application *)
AppPredictions == { [x |-> 50 * Unit, y |-> 50 * Unit] }

(* isCalibrating as onFaceDetected sees it: initFaceMesh keeps the callback
   of the first render, where the state is still false *)
CapturedIsCalibrating == FALSE

(* a number in the detector's whole units *)
Pixels(v) == IF IsFinite(v) THEN Quot(v, Unit) ELSE Undef

(* (smoothed.x / 100) * window.innerWidth, and the same for y *)
pixelPosition(smoothed) ==
  [x |-> Pixels(NumMul(NumDiv(smoothed.x, 100 * Unit), innerWidth * Unit)),
   y |-> Pixels(NumMul(NumDiv(smoothed.y, 100 * Unit), innerHeight * Unit))]

(* what a frame did: the features it extracted, the verdict on them, the
   components it called in order, and the vector it gave to predict *)
FrameResult(features, valid, calls) ==
  [op |-> "frame", mode |-> mode, trained |-> modelTrained,
   features |-> features, valid |-> valid, calls |-> calls]

(* variant: the tracking branch outside the validity test *)
TracksUnchecked(features, valid) ==
  /\ features # NullFeatures
  /\ ~(mode = "calibrating" /\ CapturedIsCalibrating)
  /\ mode = "tracking" /\ modelTrained

(* the frame reaches the tracking branch *)
Tracks(features, valid) ==
  /\ valid
  /\ ~(mode = "calibrating" /\ CapturedIsCalibrating)
  /\ mode = "tracking" /\ modelTrained

(* variant: losing the face also clears the dwell detector *)
faceLostClearsDwell ==
  /\ faceDetected' = FALSE
  /\ eyeFeatures' = NullFeatures
  /\ dwellStart' = Null /\ isDwelling' = FALSE /\ lastPosition' = NoPosition
  /\ UNCHANGED <<dwellTime, threshold, enabled, progressCallback, now, ret, epPos,
                 epAt, epFull, predVars, smoothVars>>

(* the else branch of onFaceDetected: no face in the frame *)
faceLost ==
  /\ faceDetected' = FALSE
  /\ eyeFeatures' = NullFeatures
  /\ UNCHANGED <<predVars, smoothVars, dwellVars>>

(* onFaceDetected(results): the canvas is there unless the error panel
   has replaced it *)
onFaceDetected(landmarks, prediction) ==
  /\ ~error
  /\ IF landmarks = NoLandmarks
     THEN /\ faceLost
          /\ appRet' = FrameResult(NullFeatures, FALSE, <<>>)
     ELSE LET features == FeaturesOf[landmarks]
              valid == features # NullFeatures /\ areEyeFeaturesValid(features)
              tracks == Tracks(features, valid)
              result == predictResult(prediction)
          IN /\ faceDetected' = TRUE
             /\ eyeFeatures' = IF valid THEN features ELSE eyeFeatures
             /\ IF tracks
                THEN predictBody(features.vector, prediction)
                ELSE UNCHANGED predVars
             /\ IF tracks /\ result # NoPrediction
                THEN /\ smoothBody(NumSub(100 * Unit, result.x), result.y, now * TickMs)
                     /\ updateBody(pixelPosition(smoothRet'.out))
                ELSE UNCHANGED <<smoothVars, dwellVars>>
             /\ appRet' = FrameResult(features, valid,
                             IF ~tracks THEN <<>>
                             ELSE IF result = NoPrediction THEN <<"predict">>
                             ELSE <<"predict", "smooth", "update">>)
  /\ UNCHANGED <<calVars, featVars, storeVars, isInitialized, error, mode,
                 appCalibrating, modelTrained, currentPoint, isCollecting, collectInterval, saves>>

(* setup(): the camera and the face mesh are up, loadModel has settled *)
setup(loaded) ==
  /\ ~isInitialized /\ ~error
  /\ loadModelBody(loaded)
  /\ isInitialized' = TRUE
  /\ IF loaded
     THEN modelTrained' = TRUE /\ mode' = "tracking"
     ELSE UNCHANGED <<modelTrained, mode>>
  /\ appRet' = [op |-> "setup", loaded |-> loaded]
  /\ UNCHANGED <<dwellVars, calVars, featVars, smoothVars, storeVars, error, faceDetected,
                 appCalibrating, eyeFeatures, currentPoint, isCollecting, collectInterval, saves>>

(* setup() throws: no camera *)
setupFails ==
  /\ ~isInitialized /\ ~error
  /\ error' = TRUE
  /\ appRet' = [op |-> "setupFails"]
  /\ UNCHANGED <<dwellVars, calVars, featVars, smoothVars, storeVars, predVars,
                 isInitialized, faceDetected, mode, appCalibrating, eyeFeatures,
                 modelTrained, currentPoint, isCollecting, collectInterval, saves>>

(* the control buttons are rendered *)
ControlButtons == isInitialized /\ ~appCalibrating /\ faceDetected

(* App.startCalibration, from Start Calibration or Re-Calibrate: the
   overlay is mounted with its initial state *)
appStartCalibration ==
  /\ ControlButtons
  /\ ~modelTrained \/ mode = "tracking"
  /\ mode' = "calibrating"
  /\ appCalibrating' = TRUE
  /\ points' = <<>>
  /\ isCalibrating' = TRUE
  /\ currentPointIndex' = 0
  /\ currentSamples' = <<>>
  /\ calRet' = CalResult("startCalibration", TRUE)
  /\ currentPoint' = 0
  /\ isCollecting' = FALSE
  /\ UNCHANGED collectInterval
  /\ appRet' = [op |-> "startCalibration"]
  /\ UNCHANGED <<dwellVars, featVars, smoothVars, storeVars, predVars, isInitialized,
                 error, faceDetected, eyeFeatures, modelTrained, saves>>

(* the Start Tracking button *)
startTracking ==
  /\ ControlButtons
  /\ mode = "detection" /\ modelTrained
  /\ mode' = "tracking"
  /\ appRet' = [op |-> "startTracking"]
  /\ UNCHANGED <<dwellVars, calVars, featVars, smoothVars, storeVars, predVars,
                 isInitialized, error, faceDetected, appCalibrating, eyeFeatures,
                 modelTrained, currentPoint, isCollecting, collectInterval, saves>>

(* the start screen of the overlay is rendered *)
StartScreen == appCalibrating /\ ~isCollecting /\ currentPoint = 0

(* handleCalibrationCancel, from the Cancel button of the overlay *)
handleCalibrationCancel ==
  /\ StartScreen
  /\ appCalibrating' = FALSE
  /\ mode' = "detection"
  /\ appRet' = [op |-> "cancel"]
  /\ UNCHANGED <<dwellVars, calVars, featVars, smoothVars, storeVars, predVars,
                 isInitialized, error, faceDetected, eyeFeatures, modelTrained,
                 currentPoint, isCollecting, collectInterval, saves>>

(* Calibration.startCalibration, from the Start button of the overlay *)
beginCollecting ==
  /\ StartScreen
  /\ currentPoint' = 0
  /\ isCollecting' = TRUE
  /\ UNCHANGED collectInterval
  /\ appRet' = [op |-> "beginCollecting"]
  /\ UNCHANGED <<dwellVars, calVars, featVars, smoothVars, storeVars, predVars,
                 isInitialized, error, faceDetected, mode, appCalibrating, eyeFeatures,
                 modelTrained, saves>>

(* what a run of the sampling interval did *)
CollectResult(added, success) ==
  [op |-> "collect", mode |-> mode, added |-> added, success |-> success]

(* collectDataForPoint: the interval adds the samples of the current point
   from the eyeFeatures it captured and completes the point; after the last
   point it finishes and hands over to handleCalibrationComplete, which
   runs up to the await of train *)
collectPoint ==
  /\ appCalibrating /\ isCollecting /\ collectInterval = "cleared"
  /\ eyeFeatures # NullFeatures
  /\ LET point == calibrationPoints[currentPoint + 1]
         sample == [features |-> eyeFeatures.vector,
                    targetX |-> (point.x * innerWidth) \div 100,
                    targetY |-> (point.y * innerHeight) \div 100]
         buffer == IF isCalibrating
                   THEN currentSamples \o [i \in 1 .. MaxSamples |-> sample]
                   ELSE currentSamples
         avgFeatures == averageFeatures(featureSamplesOf(buffer))
         success == buffer # <<>> /\ avgFeatures # NoFeatures
         data == PushPoint(points,
                   [targetX |-> buffer[1].targetX,
                    targetY |-> buffer[1].targetY,
                    features |-> avgFeatures.vector,
                    sampleCount |-> avgFeatures.sampleCount])
         added == Len(buffer) - Len(currentSamples)
     IN IF ~success
        THEN /\ currentSamples' = buffer
             /\ calRet' = CalResult("completeCurrentPoint", FALSE)
             /\ appRet' = CollectResult(added, FALSE)
             /\ UNCHANGED <<points, currentPointIndex, isCalibrating, predVars, error, mode,
                            appCalibrating, currentPoint, isCollecting, collectInterval>>
        ELSE /\ points' = data
             /\ currentSamples' = <<>>
             /\ currentPointIndex' = currentPointIndex + 1
             /\ appRet' = CollectResult(added, TRUE)
             /\ IF currentPoint < pointCount - 1
                THEN /\ currentPoint' = currentPoint + 1
                     /\ calRet' = CalResult("completeCurrentPoint", TRUE)
                     /\ UNCHANGED <<isCalibrating, predVars, error, mode, appCalibrating,
                                    isCollecting, collectInterval>>
                ELSE /\ isCalibrating' = FALSE
                     /\ calRet' = [op |-> "finishCalibration", ok |-> TRUE,
                                   before |-> Before, data |-> data]
                     /\ appCalibrating' = FALSE
                     /\ currentPoint' = 0
                     /\ isCollecting' = FALSE
                     /\ UNCHANGED collectInterval
                     /\ IF Len(data) < pointCount
                        THEN /\ error' = TRUE
                             /\ mode' = "detection"
                             /\ UNCHANGED predVars
                        ELSE /\ trainBody(Len(data))
                             /\ UNCHANGED <<error, mode>>
  /\ UNCHANGED <<dwellVars, featVars, smoothVars, storeVars, isInitialized, faceDetected,
                 eyeFeatures, modelTrained, saves>>

(* collectDataForPoint when eyeFeatures is null as the countdown reaches 0:
   the interval holds that null, sampleCount stays 0 and clearInterval is
   never reached *)
collectStalls ==
  /\ appCalibrating /\ isCollecting /\ collectInterval = "cleared"
  /\ eyeFeatures = NullFeatures
  /\ collectInterval' = "running"
  /\ appRet' = [op |-> "collectStalls", mode |-> mode]
  /\ UNCHANGED <<dwellVars, calVars, featVars, smoothVars, storeVars, predVars,
                 isInitialized, error, faceDetected, mode, appCalibrating, eyeFeatures,
                 modelTrained, currentPoint, isCollecting, saves>>

(* handleCalibrationComplete resumes: train resolved, saveModel is awaited *)
trainResolves ==
  /\ fitResolvesBody
  /\ saves' = saves + 1
  /\ appRet' = [op |-> "trainResolved", mode |-> mode]
  /\ UNCHANGED <<dwellVars, calVars, featVars, smoothVars, storeVars, isInitialized,
                 error, faceDetected, mode, appCalibrating, eyeFeatures, modelTrained,
                 currentPoint, isCollecting, collectInterval>>

(* variant: the catch block starts tracking all the same *)
trainRejectsStartsTracking ==
  /\ fitRejectsBody
  /\ error' = TRUE
  /\ mode' = "tracking"
  /\ appRet' = [op |-> "trainRejected", mode |-> mode]
  /\ UNCHANGED <<dwellVars, calVars, featVars, smoothVars, storeVars, isInitialized,
                 faceDetected, appCalibrating, eyeFeatures, modelTrained,
                 currentPoint, isCollecting, collectInterval, saves>>

(* handleCalibrationComplete resumes: train threw, the catch block runs *)
trainRejects ==
  /\ fitRejectsBody
  /\ error' = TRUE
  /\ mode' = "detection"
  /\ appRet' = [op |-> "trainRejected", mode |-> mode]
  /\ UNCHANGED <<dwellVars, calVars, featVars, smoothVars, storeVars, isInitialized,
                 faceDetected, appCalibrating, eyeFeatures, modelTrained,
                 currentPoint, isCollecting, collectInterval, saves>>

(* handleCalibrationComplete resumes after saveModel: the records are
   stored, the model counts as trained, tracking starts, the detector is
   enabled *)
trainingDone ==
  /\ saves > 0
  /\ saves' = saves - 1
  /\ storage' = stringify([points |-> points, version |-> "1.0"])
  /\ saved' = points
  /\ calRet' = CalResult("saveToStorage", TRUE)
  /\ modelTrained' = TRUE
  /\ mode' = "tracking"
  /\ setEnabledBody(TRUE)
  /\ appRet' = [op |-> "trainingDone", mode |-> mode]
  /\ UNCHANGED <<points, isCalibrating, currentPointIndex, currentSamples, featVars,
                 smoothVars, predVars, isInitialized, error, faceDetected, appCalibrating,
                 eyeFeatures, currentPoint, isCollecting, collectInterval>>

AppNext ==
  \/ \E loaded \in BOOLEAN : setup(loaded)
  \/ setupFails
  \/ \E landmarks \in AppLandmarks, prediction \in AppPredictions :
       smoothCalls < MaxFrames /\ onFaceDetected(landmarks, prediction)
  \/ appStartCalibration
  \/ startTracking
  \/ handleCalibrationCancel
  \/ beginCollecting
  \/ (fits.live + saves < MaxTrainings /\ collectPoint)
  \/ collectStalls
  \/ trainResolves
  \/ trainRejects
  \/ trainingDone
  \/ (mode = "tracking" /\ smoothCalls > 0 /\ Tick)

(* Only tracking frames read the clock, so time is let pass from the first
   of them on. *)
AppSpec == CalOnlyInit /\ [][AppNext]_vars

(* The same application with its scheduling: the camera keeps delivering
   frames, the countdown of the overlay runs down, and a training or a save
   that was started settles. *)
Frame ==
  \E landmarks \in AppLandmarks, prediction \in AppPredictions :
    smoothCalls < MaxFrames /\ onFaceDetected(landmarks, prediction)

CountdownEnds == (fits.live + saves < MaxTrainings /\ collectPoint) \/ collectStalls

TrainingSettles == trainResolves \/ trainRejects \/ trainingDone

LiveAppSpec ==
  /\ CalOnlyInit /\ [][AppNext]_vars
  /\ WF_vars(Frame) /\ WF_vars(CountdownEnds) /\ WF_vars(TrainingSettles)

(* tracking with a stored model: frames with and without a face, time
   passing, a re-calibration begun and cancelled, tracking started again.
   The camera delivers frames some 33 ms apart, so Date.now() has moved on
   between two calls of smooth. *)
MaxTrackFrames == 2

TrackNext ==
  \/ setup(TRUE)
  \/ \E landmarks \in AppLandmarks, prediction \in AppPredictions :
       /\ smoothCalls < MaxTrackFrames
       /\ smoothRet.op = "smooth" => smoothRet.timestamp < now * TickMs
       /\ onFaceDetected(landmarks, prediction)
  \/ appStartCalibration
  \/ handleCalibrationCancel
  \/ startTracking
  \/ (mode = "tracking" /\ Tick)

TrackSpec == CalOnlyInit /\ [][TrackNext]_vars

----------------------------------------------------------------------------
(* Properties of the dwell detector *)

(* a step that is a call of update: every call but Tick records itself in ret *)
UpdateStep == now' = now /\ ret'.op = "update"

(* the argument of the call is an object with numeric x and y *)
WellFormed(position) == position \in Positions

(* C1: a click carries the dwell anchor, that is the position of the update
   that began the episode, which within-threshold updates leave unchanged,
   and not the latest sample; after the click the anchor is the current
   position and the timer restarts at now. *)
C1_ClickAtAnchor ==
  [][ /\ (UpdateStep /\ ret'.type = "click")
           => /\ ret'.position = epPos
              /\ WithinThreshold(distance(ret'.arg, epPos), threshold)
              /\ Elapsed(now, dwellStart) >= dwellTime
              /\ lastPosition' = ret'.arg
              /\ dwellStart' = now
      /\ (UpdateStep /\ ret'.type = "dwell_progress")
           => /\ lastPosition' = epPos
              /\ epPos' = epPos ]_vars

W1_ClickAwayFromLatest ==
  /\ ret.op = "update" /\ ret.type = "click"
  /\ ret.position # ret.arg
  /\ lastPosition = ret.arg /\ dwellStart = ret.at

(* C2: the first update after reset() behaves as a first call: it anchors
   at the given position and emits dwell_start, never click or
   dwell_progress, whatever the position. *)
C2_ResetThenFirstCall ==
  [][ (ret.op = "reset" /\ UpdateStep /\ enabled /\ WellFormed(ret'.arg))
        => /\ ret'.type = "dwell_start"
           /\ lastPosition' = ret'.arg
           /\ dwellStart' = now ]_vars

(* C3: a click is emitted only if its anchor was set by an update at least
   dwellTime ms earlier and every update since was within threshold of it
   (epAt is the time of the last update that set the anchor). *)
C3_ClickNeedsSustainedDwell ==
  [][ (UpdateStep /\ ret'.type = "click")
        => /\ epAt # Null
           /\ now - epAt >= dwellTime ]_vars

(* C4: update on an instance with no prior position anchors at the given
   position, starts the timer at now, sets the dwelling flag and returns
   dwell_start. *)
C4_FirstUpdateStarts ==
  [][ (UpdateStep /\ enabled /\ ~Falsy(ret'.arg) /\ lastPosition = NoPosition)
        => /\ lastPosition' = ret'.arg
           /\ dwellStart' = now
           /\ isDwelling'
           /\ ret'.type = "dwell_start"
           /\ ret'.position = ret'.arg ]_vars

W4_FirstUpdateStarted ==
  /\ ret.op = "update" /\ ret.prev = NoPosition /\ ret.type = "dwell_start"
  /\ lastPosition = ret.arg /\ dwellStart = ret.at /\ isDwelling
  /\ now > ret.at

(* C5: an update at distance >= threshold from the anchor (equality
   included) re-anchors at the new position and restarts the timer, emits
   dwell_cancel when the dwelling flag was set and dwell_start otherwise, and
   the next within-threshold update measures its elapsed time and progress
   from the restarted timer. *)
C5_MoveReanchors ==
  [][ /\ (/\ UpdateStep /\ enabled /\ WellFormed(ret'.arg) /\ lastPosition \in Positions
          /\ distance(ret'.arg, lastPosition) >= threshold * threshold)
           => /\ lastPosition' = ret'.arg
              /\ dwellStart' = now
              /\ ret'.type = IF isDwelling THEN "dwell_cancel" ELSE "dwell_start"
      /\ (/\ ret.op = "update" /\ ret.type \in {"dwell_cancel", "dwell_start"}
          /\ UpdateStep /\ ret'.type \in {"dwell_progress", "click"})
           => /\ ret'.elapsed = now - ret.at
              /\ ret'.type = "dwell_progress"
                   => ret'.progress.num * dwellTime = (now - ret.at) * ret'.progress.den ]_vars

W5_MovedExactlyThreshold ==
  /\ ret.op = "update" /\ ret.type = "dwell_cancel"
  /\ ret.prev \in Positions /\ ret.arg \in Positions
  /\ distance(ret.arg, ret.prev) = threshold * threshold
  /\ lastPosition = ret.arg /\ dwellStart = ret.at

(* C6: every dwell_progress event carries elapsed = now - dwellStart and
   progress = min(elapsed / dwellTime, 1), with 0 <= progress <= 1, for
   every sequence of updates and clock readings; at elapsed = dwellTime / 2
   the progress is one half. *)
C6_ProgressValue ==
  [][ (UpdateStep /\ ret'.type = "dwell_progress")
        => /\ dwellStart # Null
           /\ ret'.elapsed = now - dwellStart
           /\ ret'.progress.den > 0
           /\ ret'.elapsed <= dwellTime
                => ret'.progress.num * dwellTime = ret'.elapsed * ret'.progress.den
           /\ ret'.elapsed > dwellTime => ret'.progress.num = ret'.progress.den
           /\ 0 <= ret'.progress.num /\ ret'.progress.num <= ret'.progress.den
           /\ 2 * ret'.elapsed = dwellTime => 2 * ret'.progress.num = ret'.progress.den ]_vars

(* C6 as amended: elapsed and progress are as stated and progress <= 1;
   progress >= 0 exactly when the clock reading of the call is not earlier
   than the reading that started the timer. *)
C6_ProgressValueForward ==
  [][ (UpdateStep /\ ret'.type = "dwell_progress")
        => /\ dwellStart # Null
           /\ ret'.elapsed = now - dwellStart
           /\ ret'.progress.den > 0
           /\ ret'.elapsed <= dwellTime
                => ret'.progress.num * dwellTime = ret'.elapsed * ret'.progress.den
           /\ ret'.elapsed > dwellTime => ret'.progress.num = ret'.progress.den
           /\ ret'.progress.num <= ret'.progress.den
           /\ (0 <= ret'.progress.num) <=> (now >= dwellStart)
           /\ 2 * ret'.elapsed = dwellTime => 2 * ret'.progress.num = ret'.progress.den ]_vars

W6_HalfWay ==
  /\ ret.op = "update" /\ ret.type = "dwell_progress"
  /\ 2 * ret.elapsed = dwellTime
  /\ 2 * ret.progress.num = ret.progress.den

(* C7: a progress value >= 1 is never reported (dwell_progress event,
   progress callback, getProgress()) for a dwell episode that then ends
   without its click: epFull says that such a value was reported in the
   episode that is open. *)
C7_FullProgressClicks ==
  [][ (/\ epFull /\ UpdateStep /\ WellFormed(ret'.arg) /\ lastPosition \in Positions
       /\ ret'.type \in {"click", "dwell_cancel", "dwell_start"})
        => ret'.type = "click" ]_vars

(* C8: update with an absent or malformed position returns none and leaves
   anchor, timer and dwelling flag as they were. *)
C8_MalformedIgnored ==
  [][ (UpdateStep /\ ~WellFormed(ret'.arg))
        => /\ ret'.type = "none"
           /\ UNCHANGED <<lastPosition, dwellStart, isDwelling>> ]_vars

(* C9: while disabled, update returns none and emits nothing, and disabling
   clears the dwell state, so that the first update after re-enabling emits
   dwell_start and not click. *)
C9_DisabledThenFresh ==
  [][ /\ (UpdateStep /\ ~enabled)
           => /\ ret'.type = "none" /\ ret'.cb = NoProgress
              /\ UNCHANGED <<lastPosition, dwellStart, isDwelling>>
      /\ (now' = now /\ ret'.op = "disable")
           => /\ dwellStart' = Null /\ ~isDwelling'
      /\ (ret.op = "enable" /\ dwellStart = Null /\ UpdateStep /\ WellFormed(ret'.arg))
           => ret'.type = "dwell_start" ]_vars

----------------------------------------------------------------------------
(* Properties of the calibration manager *)

(* the validity rule applied to a buffered sample's feature vector *)
PassesValidity(sample) ==
  areEyeFeaturesValid([vector |-> sample.features, normalized |-> NormalizedOf(sample.features)])

ValidCount(samples) == Len(SelectSeq(samples, PassesValidity))

(* C10: completeCurrentPoint with a buffer holding no sample that passes the
   validity rule (empty, or invalid samples only) returns failure, creates
   no record and leaves the point index; no record has sampleCount 0. *)
C10_NoRecordFromNoValidSample ==
  [][ (calRet'.op = "completeCurrentPoint" /\ ValidCount(currentSamples) = 0)
        => /\ calRet'.ok = FALSE
           /\ UNCHANGED <<points, currentPointIndex>> ]_vars

(* the buffered samples that pass the validity rule *)
ValidOnly(samples) == SelectSeq(samples, PassesValidity)

(* C11: completeCurrentPoint on a buffer of M samples of which N >= 1 pass
   the validity rule succeeds and appends one record whose sampleCount is N
   and whose 8 features are the means over exactly those N samples; the
   buffer is cleared and the point index advances by one. *)
C11_RecordAveragesValidSamples ==
  [][ (calRet'.op = "completeCurrentPoint" /\ ValidCount(currentSamples) >= 1)
        => LET valid == featureSamplesOf(ValidOnly(currentSamples))
               rec == points'[Len(points')]
           IN /\ calRet'.ok
              /\ Len(points') = Len(points) + 1
              /\ rec.sampleCount = Len(valid)
              /\ \A index \in 1 .. 8 :
                    rec.features[index].num * Len(valid)
                      = SumAt(valid, index) * rec.features[index].den
              /\ currentSamples' = <<>>
              /\ currentPointIndex' = currentPointIndex + 1 ]_vars

(* C12: finishCalibration called with fewer than pointCount completed points
   fails, and hands out no partial record set. *)
C12_FinishNeedsAllPoints ==
  [][ (calRet'.op = "finishCalibration" /\ Len(points) < pointCount)
        => calRet'.ok = FALSE ]_vars

(* C13: every successful completeCurrentPoint appends its record behind the
   earlier ones, and finishCalibration after start and exactly pointCount
   successful completions returns exactly pointCount records, the i-th being
   the record of the i-th target, and leaves the session not collecting. *)
C13_FinishReturnsAllInOrder ==
  [][ /\ (calRet'.op = "completeCurrentPoint" /\ calRet'.ok)
           => /\ Len(points') = Len(points) + 1
              /\ SubSeq(points', 1, Len(points)) = points
              /\ points'[Len(points')].targetX = currentSamples[1].targetX
              /\ points'[Len(points')].targetY = currentSamples[1].targetY
      /\ (/\ calRet'.op = "finishCalibration"
          /\ isCalibrating /\ currentPointIndex = pointCount)
           => /\ calRet'.data = points
              /\ Len(calRet'.data) = pointCount
              /\ \A i \in 1 .. pointCount :
                    /\ calRet'.data[i].targetX = calibrationPoints[i].x * 10
                    /\ calRet'.data[i].targetY = calibrationPoints[i].y * 10
              /\ ~isCalibrating' ]_vars

W13_NineRecordsReturned ==
  /\ calRet.op = "finishCalibration"
  /\ calRet.before.collecting /\ calRet.before.index = pointCount
  /\ Len(calRet.data) = pointCount
  /\ calRet.data[1].features # calRet.data[2].features
  /\ ~isCalibrating

(* C14: startCalibration, whatever the state it is called in, leaves no
   record and no buffered sample, and the session collecting at point 0. *)
C14_StartClearsEverything ==
  [][ calRet'.op = "startCalibration"
        => /\ points' = <<>>
           /\ currentSamples' = <<>>
           /\ isCalibrating'
           /\ currentPointIndex' = 0 ]_vars

W14_StartedMidCollection ==
  /\ calRet.op = "startCalibration"
  /\ calRet.before.collecting
  /\ calRet.before.points >= 1 /\ calRet.before.buffered >= 1
  /\ points = <<>> /\ currentSamples = <<>>

(* C15: addSample while the session is not collecting changes neither the
   buffer nor the records nor the point index; while collecting it appends
   exactly one sample, whatever the validity of its features. *)
C15_AddSampleOnlyWhileCollecting ==
  [][ calRet'.op = "addSample"
        => /\ UNCHANGED <<points, currentPointIndex, isCalibrating>>
           /\ IF isCalibrating
              THEN \E features \in SampleFeatures, target \in Targets :
                     currentSamples' = Append(currentSamples,
                       [features |-> features.vector,
                        targetX |-> target.x, targetY |-> target.y])
              ELSE UNCHANGED currentSamples ]_vars

W15_SampleAfterFinishIgnored ==
  /\ calRet.op = "addSample"
  /\ ~calRet.before.collecting
  /\ calRet.before.points >= 1 /\ calRet.before.buffered >= 1
  /\ Len(currentSamples) = calRet.before.buffered

----------------------------------------------------------------------------
(* Properties of feature extraction *)

(* C16: extractEyeFeatures returns null for a missing landmark array and
   for every array of fewer than 478 entries; it returns a feature object
   only for an array of at least 478 entries, and the vector of that object
   has exactly 8 elements. *)
C16_NullBelow478 ==
  featRet.op = "extractEyeFeatures"
    => /\ (featRet.arg = NoLandmarks \/ featRet.arg.length < 478)
            => featRet.features = NullFeatures
       /\ featRet.features # NullFeatures
            => /\ featRet.arg # NoLandmarks
               /\ featRet.arg.length >= 478
               /\ Len(featRet.features.vector) = 8

W16_NullAt477 ==
  /\ featRet.op = "extractEyeFeatures"
  /\ featRet.arg # NoLandmarks
  /\ featRet.arg.length = 477
  /\ featRet.features = NullFeatures

(* a >= b and a <= b on numbers; false when an operand is NaN *)
Ge(a, b) == ~IsNaN(a) /\ ~IsNaN(b) /\ a >= b
Le(a, b) == ~IsNaN(a) /\ ~IsNaN(b) /\ a <= b

(* the verdict the rule gives on a feature vector: apertures at least 0.5,
   iris offsets of magnitude at most 5, symmetry entries at most 3 *)
VectorVerdict(v) ==
  /\ Ge(v[3], Unit \div 2) /\ Ge(v[6], Unit \div 2)
  /\ \A i \in {1, 2, 4, 5} : Le(Abs(v[i]), 5 * Unit)
  /\ Le(v[7], 3 * Unit) /\ Le(v[8], 3 * Unit)

(* C17: on an extracted feature object whose vector holds finite numbers,
   areEyeFeaturesValid is true exactly when both apertures are at least
   0.5, the four iris offsets have magnitude at most 5 and the symmetry
   entries 7 and 8 of the vector are at most 3. *)
C17_VerdictFollowsVector ==
  (/\ featRet.op = "areEyeFeaturesValid"
   /\ featRet.arg # NullFeatures
   /\ \A i \in 1 .. 8 : IsFinite(featRet.arg.vector[i]))
    => (featRet.valid <=> VectorVerdict(featRet.arg.vector))

----------------------------------------------------------------------------
(* Properties of the smoother *)

(* a step that is a call of smooth *)
SmoothStep == smoothCalls' = smoothCalls + 1 /\ smoothRet'.op = "smooth"

(* the call took the filter from before to after, with this input and output:
   the input comes back unchanged and is stored with the timestamp *)
PassedThrough(after, value, out, timestamp) ==
  out = value /\ after.x = value /\ after.lasttime = timestamp

(* C18: the first filter call on an axis returns its input unchanged and
   stores it with its timestamp; reset leaves both axes without a sample,
   and the filter call after a reset again returns its input unchanged,
   whatever was filtered before. *)
C18_FirstCallPassesThrough ==
  [][ /\ (SmoothStep /\ (xFilter.lasttime = Null \/ smoothRet.op = "reset"))
           => PassedThrough(xFilter', smoothRet'.x, smoothRet'.out.x, smoothRet'.timestamp)
      /\ (SmoothStep /\ (yFilter.lasttime = Null \/ smoothRet.op = "reset"))
           => PassedThrough(yFilter', smoothRet'.y, smoothRet'.out.y, smoothRet'.timestamp)
      /\ smoothRet'.op = "reset"
           => xFilter'.lasttime = Null /\ yFilter'.lasttime = Null ]_vars

W18_PassedThroughAfterReset ==
  /\ smoothRet.op = "smooth"
  /\ smoothRet.first
  /\ smoothCalls >= 3
  /\ smoothRet.out = [x |-> smoothRet.x, y |-> smoothRet.y]
  /\ xFilter.x = smoothRet.x /\ yFilter.x = smoothRet.y

(* a filter call whose timestamp is not later than the stored one keeps
   the derivative and gives a finite value *)
GuardedStep(before, after, out, timestamp) ==
  (before.lasttime # Null /\ timestamp <= before.lasttime)
    => /\ after.dx = before.dx
       /\ IsFinite(out)

(* C19: a filter call with dt <= 0 leaves the stored derivative as it was
   and returns a finite value, and after the first sample the stored value
   of an axis is never NaN. *)
C19_NoDivisionByZero ==
  [][ /\ SmoothStep
           => /\ GuardedStep(xFilter, xFilter', smoothRet'.out.x, smoothRet'.timestamp)
              /\ GuardedStep(yFilter, yFilter', smoothRet'.out.y, smoothRet'.timestamp)
      /\ xFilter'.lasttime # Null => ~IsNaN(xFilter'.x)
      /\ yFilter'.lasttime # Null => ~IsNaN(yFilter'.x) ]_vars

(* the reference step of the 1-euro filter on the state of the filter f *)
ReferenceStep(f, value, timestamp) ==
  LET dt == timestamp - f.lasttime
      timed == [f EXCEPT !.freq = NumDiv(Unit, dt)]
      rawDerivative == NumDiv(NumSub(value, f.x), dt)
      ad == alpha(timed, f.dcutoff)
      smoothedDerivative ==
        NumAdd(NumMul(ad, rawDerivative), NumMul(NumSub(Unit, ad), f.dx))
      cutoff == NumAdd(f.mincutoff, NumMul(f.beta, Abs(smoothedDerivative)))
      a == alpha(timed, cutoff)
  IN [out |-> NumAdd(NumMul(a, value), NumMul(NumSub(Unit, a), f.x)),
      derivative |-> smoothedDerivative]

FollowsReference(before, after, value, out, timestamp) ==
  (before.lasttime # Null /\ timestamp > before.lasttime)
    => LET ref == ReferenceStep(before, value, timestamp)
       IN out = ref.out /\ after.x = ref.out /\ after.dx = ref.derivative

(* C20: every filter call after the first with dt > 0 returns and stores
   the output of the reference step, and stores its smoothed derivative,
   a_d * rawDerivative + (1 - a_d) * lastDerivative. *)
C20_StepIsReferenceStep ==
  [][ SmoothStep
        => /\ FollowsReference(xFilter, xFilter', smoothRet'.x,
                               smoothRet'.out.x, smoothRet'.timestamp)
           /\ FollowsReference(yFilter, yFilter', smoothRet'.y,
                               smoothRet'.out.y, smoothRet'.timestamp) ]_vars

(* a filter call after the first, later than the stored timestamp, whose
   input is the value the filter holds: the constant is fed once more *)
ConstantFed(before, value, timestamp) ==
  /\ before.lasttime # Null /\ timestamp > before.lasttime
  /\ IsFinite(before.x) /\ value = before.x

(* the output stays at the constant and the derivative does not grow, and
   stays 0 when it was 0 *)
Settles(before, after, value, out) ==
  /\ out = value /\ after.x = value
  /\ Le(Abs(after.dx), Abs(before.dx))

(* C21: feeding the constant v again at a later timestamp returns v and
   leaves a stored derivative no larger in magnitude than before, so that
   from the first sample on the derivative stays at 0, for every v. *)
C21_ConstantInputSettles ==
  [][ SmoothStep
        => /\ ConstantFed(xFilter, smoothRet'.x, smoothRet'.timestamp)
                => Settles(xFilter, xFilter', smoothRet'.x, smoothRet'.out.x)
           /\ ConstantFed(yFilter, smoothRet'.y, smoothRet'.timestamp)
                => Settles(yFilter, yFilter', smoothRet'.y, smoothRet'.out.y) ]_vars

(* C22: what smooth returns and stores for x is what the x filter alone
   gives for the x input and the timestamp, whatever the y input and the
   state of the y filter, and symmetrically for y; and at all times both
   filters hold the same mincutoff, beta and dcutoff. *)
C22_AxesIndependent ==
  [][ /\ SmoothStep
           => /\ LET alone == filter(xFilter, smoothRet'.x, smoothRet'.timestamp)
                 IN alone.filter = xFilter' /\ alone.out = smoothRet'.out.x
              /\ LET alone == filter(yFilter, smoothRet'.y, smoothRet'.timestamp)
                 IN alone.filter = yFilter' /\ alone.out = smoothRet'.out.y
      /\ xFilter'.mincutoff = yFilter'.mincutoff
      /\ xFilter'.beta = yFilter'.beta
      /\ xFilter'.dcutoff = yFilter'.dcutoff ]_vars

W22_AxesDifferAfterParameters ==
  /\ smoothRet.op = "smooth"
  /\ smoothCalls >= 2
  /\ xFilter.mincutoff = 2 * Unit /\ xFilter.beta = 0
  /\ smoothRet.x # smoothRet.y
  /\ smoothRet.out.x # smoothRet.out.y
  /\ ~smoothRet.first

(* out lies between a and b, and strictly between them when they differ;
   false when one of the three is NaN *)
StrictlyBetween(a, out, b) ==
  /\ (Le(a, out) /\ Le(out, b)) \/ (Le(b, out) /\ Le(out, a))
  /\ a # b => (out # a /\ out # b)

(* C30: every filter call after the first with dt > 0 returns a value
   between the value returned before and the new input, strictly between
   them when they differ. *)
C30_OutputBetween ==
  [][ SmoothStep
        => /\ (xFilter.lasttime # Null /\ smoothRet'.timestamp > xFilter.lasttime)
                => StrictlyBetween(xFilter.x, smoothRet'.out.x, smoothRet'.x)
           /\ (yFilter.lasttime # Null /\ smoothRet'.timestamp > yFilter.lasttime)
                => StrictlyBetween(yFilter.x, smoothRet'.out.y, smoothRet'.y) ]_vars

(* a click reported by the update made at time t *)
ClickedAt(t) == ret.op = "update" /\ ret.type = "click" /\ ret.at = t

(* C29: during a sustained fixation a click is emitted once dwellTime has
   passed since the anchor was taken, after each click another one follows
   once a further dwellTime has passed, and two consecutive clicks are at
   least dwellTime apart. *)
C29_FixationClicksRepeatedly ==
  /\ \A t \in StartTime .. FixationEnd :
        (lastPosition # NoPosition /\ dwellStart = t /\ t + dwellTime <= FixationEnd)
          ~> (\E u \in StartTime .. FixationEnd : u >= t + dwellTime /\ ClickedAt(u))
  /\ \A t \in StartTime .. FixationEnd :
        (ClickedAt(t) /\ t + dwellTime <= FixationEnd)
          ~> (\E u \in StartTime .. FixationEnd : u >= t + dwellTime /\ ClickedAt(u))
  /\ [][ (ret' # ret /\ ret'.op = "update" /\ ret'.type = "click")
          => (epAt # Null /\ now' - epAt >= dwellTime) ]_vars

(* a second click of the same fixation, one dwell time after the first *)
W29_SecondClick ==
  /\ ret.op = "update" /\ ret.type = "click" /\ ret.again
  /\ ret.elapsed = dwellTime

(* C28: loadFromStorage after saveToStorage, by the same manager or by a
   new one, restores the list that was saved: the same records in the same
   order, each with the same targetX, targetY, feature vector and
   sampleCount. *)
C28_SaveLoadRoundTrip ==
  [][ (calRet'.op = "loadFromStorage" /\ calRet'.ok) => points' = saved ]_vars

(* C24: train with fewer than 9 records throws and leaves the trained flag
   as it was; a predictor that was untrained stays untrained, so that
   predict still returns null. *)
C24_ShortTrainingFails ==
  [][ (predRet'.op = "train" /\ predRet'.arg < MinTrainingRecords)
        => /\ predRet'.result = "error"
           /\ isTrained' = isTrained
           /\ fits' = fits
           /\ ~isTrained => \A prediction \in Predictions :
                               predictResult(prediction)' = NoPrediction ]_vars

(* a train call on 8 records that threw, on a predictor that had no model *)
W24_EightRecordsRefused ==
  /\ predRet.op = "train" /\ predRet.arg = MinTrainingRecords - 1
  /\ predRet.result = "error" /\ ~predRet.before.model
  /\ model /\ ~isTrained

(* C25: predict returns null whenever the model has not been fitted or
   loaded (never created, created by a train that failed or is still
   running, disposed), and a coordinate pair only when it has. *)
C25_PredictOnlyWhenTrained ==
  [][ predRet'.op = "predict"
        => (predRet'.result # NoPrediction <=> (model /\ fitted)) ]_vars

(* predict after dispose of a trained model, and predict on a trained one *)
W25_NullAfterDispose ==
  /\ predRet.op = "predict" /\ predRet.result = NoPrediction
  /\ ~model /\ ~isTrained /\ fits.dead > 0

(* a step of onFaceDetected *)
FrameStep == appRet'.op = "frame" /\ now' = now

(* C23: in every frame, predict is called only after extractEyeFeatures
   returned features and areEyeFeaturesValid said true of them, and it is
   given the vector of those same features. *)
C23_PredictOnlyOnValidFeatures ==
  [][ (FrameStep /\ (predRet' # predRet \/ appRet'.calls # <<>>))
        => /\ appRet'.features # NullFeatures
           /\ areEyeFeaturesValid(appRet'.features)
           /\ appRet'.valid
           /\ predRet'.op = "predict"
           /\ predRet'.arg = appRet'.features.vector ]_vars

(* a frame in tracking mode whose features passed and went to predict *)
W23_ValidFramePredicted ==
  /\ appRet.op = "frame" /\ appRet.mode = "tracking" /\ appRet.valid
  /\ appRet.calls = <<"predict", "smooth", "update">>
  /\ predRet.op = "predict" /\ predRet.arg = appRet.features.vector
  /\ predRet.result # NoPrediction

(* a run of the sampling interval that added samples *)
SamplesAdded == appRet'.op = "collect" /\ calVars' # calVars /\ appRet'.added > 0

(* C26: samples are added to the calibration only while the mode is
   calibrating; predict, smooth and update are called, in that order, only
   while the mode is tracking with a trained model; no step does both. *)
C26_BranchesExclusive ==
  [][ /\ SamplesAdded => (mode = "calibrating" /\ appRet'.mode = "calibrating")
      /\ (FrameStep /\ (appRet'.calls # <<>> \/ predRet' # predRet
                          \/ smoothVars' # smoothVars \/ dwellVars' # dwellVars))
           => /\ mode = "tracking" /\ modelTrained
              /\ appRet'.calls \in {<<"predict">>, <<"predict", "smooth", "update">>}
              /\ UNCHANGED calVars ]_vars

(* C27: the mode turns to tracking after a calibration only when train has
   resolved on at least 9 records and the handler has resumed; a training
   that fails turns the mode to detection and leaves nothing behind that
   would start tracking. *)
C27_TrackingWaitsForTraining ==
  [][ /\ (mode' = "tracking" /\ mode # "tracking")
           => \/ /\ appRet'.op = "trainingDone"
                 /\ isTrained /\ fitted /\ modelTrained'
              \/ appRet'.op \in {"setup", "startTracking"}
      /\ (predRet'.op = "train" /\ predRet' # predRet)
           => /\ predRet'.arg >= pointCount
              /\ predRet'.result = "pending"
              /\ mode' = mode
      /\ (appRet'.op = "trainResolved" /\ appRet' # appRet) => mode' = mode
      /\ (predRet'.op = "fit" /\ predRet'.result = "rejected" /\ predRet' # predRet)
           => /\ mode' = "detection"
              /\ saves' = saves
              /\ fits'.live + fits'.dead = fits.live + fits.dead - 1 ]_vars

(* tracking started by a training that resolved, on nine saved records *)
W27_TrackingAfterTraining ==
  /\ appRet.op = "trainingDone" /\ appRet.mode = "calibrating"
  /\ mode = "tracking" /\ modelTrained /\ isTrained
  /\ Len(saved) = pointCount

(* the frame before was without a face, or tracking has just been started
   again after a calibration was begun *)
AfterGap ==
  \/ appRet.op = "frame" /\ ~faceDetected
  \/ appRet.op = "startTracking"

(* C31: the first tracking frame after the face was lost, or after tracking
   was suspended for a re-calibration, finds the dwell detector reset: its
   update returns dwell_start, never a click or a progress of a dwell that
   began before the gap. *)
C31_GapResetsDwell ==
  [][ (FrameStep /\ AfterGap /\ appRet'.calls = <<"predict", "smooth", "update">>)
        => ret'.type = "dwell_start" ]_vars

(* the frame gave no features, or features that are not valid *)
Skipped(frame) ==
  frame.features = NullFeatures \/ ~areEyeFeaturesValid(frame.features)

(* C32: a frame without landmarks, with too few of them, or with features
   that are not valid changes nothing of the smoother, the dwell detector,
   the predictor or the calibration manager. *)
C32_SkippedFrameChangesNothing ==
  [][ (FrameStep /\ Skipped(appRet'))
        => UNCHANGED <<smoothVars, dwellVars, predVars, calVars>> ]_vars

(* a frame without a face skipped while a dwell is under way in tracking *)
W32_FaceLostDuringDwell ==
  /\ appRet.op = "frame" /\ appRet.mode = "tracking" /\ appRet.trained
  /\ appRet.features = NullFeatures /\ ~faceDetected
  /\ isDwelling /\ lastPosition # NoPosition /\ smoothCalls > 0

(* the i-th point of a 3x3 grid at 10/50/90 percent, row by row, and its
   place in a window of innerWidth by innerHeight *)
GridPoint(i) == [x |-> 10 + 40 * ((i - 1) % 3), y |-> 10 + 40 * ((i - 1) \div 3)]
GridTarget(i) ==
  [x |-> (GridPoint(i).x * innerWidth) \div 100,
   y |-> (GridPoint(i).y * innerHeight) \div 100]

(* a run of the sampling interval of the overlay that reached
   completeCurrentPoint *)
CompletionStep == appRet'.op = "collect" /\ calVars' # calVars

(* C33: the targets are the 3x3 grid at 10/50/90 percent in row-major order
   with ordinals 1 to 9; at every completion the point index of the overlay
   equals the point index of the manager, a failed point leaves both where
   they were, and the i-th record carries the screen target of the i-th
   grid point. *)
C33_RecordsFollowGrid ==
  [][ CompletionStep
        => /\ \A i \in 1 .. pointCount :
                /\ calibrationPoints[i].x = GridPoint(i).x
                /\ calibrationPoints[i].y = GridPoint(i).y
                /\ calibrationPoints[i].id = i
           /\ currentPoint = currentPointIndex
           /\ ~appRet'.success
                => (currentPoint' = currentPoint /\ UNCHANGED <<points, currentPointIndex>>)
           /\ appRet'.success
                => /\ currentPointIndex' = currentPointIndex + 1
                   /\ Len(points') = currentPointIndex'
                   /\ \A i \in 1 .. Len(points') :
                        /\ points'[i].targetX = GridTarget(i).x
                        /\ points'[i].targetY = GridTarget(i).y ]_vars

(* the ninth point completed: nine records, one for each grid point *)
W33_NineRecordsInOrder ==
  /\ appRet.op = "collect" /\ appRet.success
  /\ Len(points) = pointCount /\ currentPointIndex = pointCount
  /\ points[2].targetX = 500 /\ points[2].targetY = 100
  /\ points[4].targetX = 100 /\ points[4].targetY = 500

(* C38: once the Start button of the overlay has begun the collection, the
   sampling interval reaches completeCurrentPoint, and an interval that has
   been set is cleared again, also when eyeFeatures was null as the
   countdown reached 0. *)
C38_CollectionTerminates ==
  /\ (appCalibrating /\ isCollecting /\ appRet.op = "beginCollecting")
       ~> (appRet.op = "collect")
  /\ (collectInterval = "running") ~> (collectInterval = "cleared")

(* C35: while the calibration overlay is running, no step turns the mode to
   tracking or changes whether the model counts as trained; in particular
   not the end of a training that was started by the calibration before. *)
C35_NoTrackingUnderCalibration ==
  [][ (appCalibrating /\ appCalibrating')
        => (mode' # "tracking" /\ modelTrained' = modelTrained) ]_vars

(* C34: once finishCalibration has ended the session, the records stay as
   finishCalibration returned them until startCalibration begins a new
   session: no later call adds, removes or changes one (clear, which erases
   on purpose, set aside), in particular not completeCurrentPoint with
   samples left in the buffer. *)
C34_RecordsFrozenAfterFinish ==
  [][ (~isCalibrating /\ calRet'.op \notin {"startCalibration", "clear"})
        => points' = points ]_vars

(* C36: whatever the order of startCalibration, addSample,
   completeCurrentPoint, finishCalibration and clear, there are as many
   records as currentPointIndex says, and never more than the nine points
   of the grid. *)
C36_CountIsIndexAtMostNine ==
  Len(points) = currentPointIndex /\ Len(points) <= pointCount

(* C37: after an update that returned dwell_start or dwell_progress the
   detector says it is dwelling (isDwellingNow), and after every step the
   dwelling flag is set exactly when the timer is, also after a click
   within a sustained fixation. *)
C37_FlagAgreesWithEvents ==
  [][ /\ (UpdateStep /\ ret'.type \in {"dwell_start", "dwell_progress"})
           => (isDwelling' /\ dwellStart' # Null)
      /\ isDwelling' <=> (dwellStart' # Null) ]_vars

(* C39: a loadFromStorage that returns false, because nothing is stored,
   the item cannot be parsed, or it holds no usable list of points, leaves
   the records of the manager as they were. *)
C39_FailedLoadKeepsRecords ==
  [][ (calRet'.op = "loadFromStorage" /\ calRet' # calRet /\ ~calRet'.ok)
        => points' = points ]_vars

(* C40: features computed from an eye whose corners coincide (eye width 0,
   so the normalized values are NaN or infinite) are never returned by
   extractEyeFeatures and then judged valid: whatever passes
   areEyeFeaturesValid has a vector of finite numbers only. *)
C40_DegenerateNeverValid ==
  (featRet.op = "areEyeFeaturesValid" /\ featRet.arg # NullFeatures /\ featRet.valid)
    => \A i \in DOMAIN featRet.arg.vector : IsFinite(featRet.arg.vector[i])

====
